---- MODULE Spec2Model ----
(***************************************************************************)
(* The fusefs node cache of usr/src/uts/common/fs/fusefs/fusefs_node.c:    *)
(* per-mount AVL trees of fusenodes keyed by remote path, the global       *)
(* fusenode freelist, and the operations that move nodes between them.     *)
(*                                                                         *)
(* Every kernel thread is a small state machine: th[t].pc names the next   *)
(* statement of the function the thread is executing.  A step is one lock  *)
(* acquisition, or the statements that follow an acquisition up to the     *)
(* next one.  The rwlock of each mount, the freelist mutex and every       *)
(* vnode's v_lock are state; r_statelock only ever brackets assignments to *)
(* one node (it is never held across another acquisition), so its          *)
(* critical sections are part of the step that contains them.              *)
(*                                                                         *)
(* A failed ASSERT is recorded in panic and stops the system, as in a      *)
(* DEBUG kernel.                                                           *)
(***************************************************************************)
EXTENDS Integers, Sequences, FiniteSets, TLC

\* Number of kernel threads working on the cache.
NThreads == 2
\* Number of fusenode slabs the kmem cache can hand out.
MaxNodes == 2
\* Number of references callers may hold at the same time.
MaxRefs == 2
\* Number of mounts.
NMounts == 2
\* Number of i/o operations that may be in flight on one node.
MaxIO == 1
\* Number of nodes in the tree that fusefs_attrcache_prune is tried on.
MaxPaths == 4
\* Length of the longest path of a directory fusefs_nget is called on.
MaxDirLen == 1
\* The tunable nfusenode, the target number of fusenodes (line 104).
nfusenode == 1

\* The path separators fusefs_attrcache_prune looks for (lines 816-817).
COLON == 58
SLASH == 47
\* The character '.' of the names fusefs_nget refuses (lines 1039-1040) and
\* the error it returns for them (line 1041).
DOT == 46
EINVAL == 22

Threads == 1..NThreads
Nodes == 1..MaxNodes
Mounts == 1..NMounts

\* A null n_rpath: the NUL character alone, which no path contains.
NullPath == <<0>>

\* The (dirnm, sep, name) triples callers pass to fusefs_node_findcreate.
Calls == { [dirnm |-> <<>>, sep |-> 0, name |-> <<97>>],
           [dirnm |-> <<97>>, sep |-> SLASH, name |-> <<98>>] }

\* The third argument of fusefs_node_findcreate: no attributes (a lookup),
\* &fusefs_fattr0 (create, apply nothing), or real attributes.
Faps == {"NULL", "FATTR0", "REAL"}

\* lines 210-231: the search string dirnm [sep] name.
BuildPath(c) ==
    c.dirnm \o (IF c.sep # 0 THEN <<c.sep>> ELSE <<>>) \o c.name

Min(a, b) == IF a < b THEN a ELSE b

\* strncmp(a, b, clen) on strings that are at least clen long.
RECURSIVE strncmp(_, _, _, _)
strncmp(a, b, i, clen) ==
    IF i > clen THEN 0
    ELSE IF a[i] < b[i] THEN -1
    ELSE IF a[i] > b[i] THEN 1
    ELSE strncmp(a, b, i + 1, clen)

\* lines 736-760: strcmp semantics on counted strings.
fusefs_node_cmp(a, b) ==
    LET clen == Min(Len(a), Len(b))
        diff == strncmp(a, b, 1, clen)
    IN  IF diff < 0 THEN -1
        ELSE IF diff > 0 THEN 1
        ELSE IF Len(b) > clen THEN -1
        ELSE IF Len(a) > clen THEN 1
        ELSE 0

VARIABLES
    nodes,          \* the fusenode in each slab (with its vnode's v_count)
    hash_avl,       \* fmi_hash_avl of each mount: the nodes linked into it
    hash_lk,        \* fmi_hash_lk of each mount: writer and readers
    fusefreelist,   \* head of the freelist, 0 when empty
    freelist_lock,  \* owner of fusefreelist_lock, 0 when free
    v_lock,         \* owner of each vnode's v_lock, 0 when free
    fusenodenew,    \* number of fusenodes allocated
    th,             \* each thread's program counter and locals
    refs,           \* references held by callers, per node
    vfs_unmounted,  \* VFS_UNMOUNTED in the vfs_flag of each mount
    panic           \* the ASSERT that failed, "none" otherwise

vars == <<nodes, hash_avl, hash_lk, fusefreelist, freelist_lock, v_lock,
          fusenodenew, th, refs, vfs_unmounted, panic>>

\* A slab that is not allocated.
FreeSlab == [alloc |-> FALSE, n_rpath |-> NullPath, n_mount |-> 0,
             RHASHED |-> FALSE, v_count |-> 0, r_count |-> 0, r_error |-> 0,
             r_freef |-> 0, r_freeb |-> 0]

NewNode_Unheld(mi) == [alloc |-> TRUE, n_rpath |-> <<0>>, n_mount |-> mi,
                       RHASHED |-> FALSE, v_count |-> 0, r_count |-> 0,
                       r_error |-> 0, r_freef |-> 0, r_freeb |-> 0]

\* lines 400-419 after vn_alloc or vn_reinit: a zeroed fusenode of mount mi
\* whose vnode has the one reference of its creator.
NewNode(mi) == [alloc |-> TRUE, n_rpath |-> NullPath, n_mount |-> mi,
                RHASHED |-> FALSE, v_count |-> 1, r_count |-> 0, r_error |-> 0,
                r_freef |-> 0, r_freeb |-> 0]

\* A thread that is executing none of the cache's functions.
IdleThread == [pc |-> "idle", mi |-> 0, rpath |-> NullPath, fap |-> "NULL",
               np |-> 0, fnd |-> 0, hret |-> "idle", anp |-> 0, ami |-> 0,
               tmp_mi |-> 0, aret |-> "idle", newnode |-> 0, rlist |-> <<>>,
               tmp_avl |-> {}, pinned |-> {}, removed |-> <<>>,
               fret |-> "idle", name |-> <<>>, err |-> 0, vpp |-> 0,
               victim |-> 0]

\* fusefs_subrinit and fusefs_init_hash_avl: nothing allocated, nothing cached.
Init ==
    /\ nodes = [n \in Nodes |-> FreeSlab]
    /\ hash_avl = [m \in Mounts |-> {}]
    /\ hash_lk = [m \in Mounts |-> [w |-> 0, r |-> {}]]
    /\ fusefreelist = 0
    /\ freelist_lock = 0
    /\ v_lock = [n \in Nodes |-> 0]
    /\ fusenodenew = 0
    /\ th = [t \in Threads |-> IdleThread]
    /\ refs = [n \in Nodes |-> 0]
    /\ vfs_unmounted = [m \in Mounts |-> FALSE]
    /\ panic = "none"

-----------------------------------------------------------------------------
\* Locks.

\* rw_enter(lk, RW_READER) can proceed.
CanRead(m) == hash_lk[m].w = 0
\* rw_enter(lk, RW_WRITER) can proceed.
CanWrite(m) == hash_lk[m].w = 0 /\ hash_lk[m].r = {}
\* Mutant of RdLock: the reader hold is not recorded.
RdLock_Skipped(lk, m, t) == lk

\* rw_enter(lk, RW_READER).
RdLock(lk, m, t) == [lk EXCEPT ![m].r = @ \cup {t}]
WrLock(lk, m, t) == [lk EXCEPT ![m].w = t]
\* rw_exit: drops whichever hold the thread has.
RwExit(lk, m, t) ==
    [lk EXCEPT ![m] = [w |-> IF @.w = t THEN 0 ELSE @.w, r |-> @.r \ {t}]]

RW_LOCK_HELD(m, t) == hash_lk[m].w = t \/ t \in hash_lk[m].r
RW_WRITE_HELD(m, t) == hash_lk[m].w = t

-----------------------------------------------------------------------------
\* The freelist (a circular doubly linked list through r_freef / r_freeb).

\* Mutant of sn_rmfree: the node keeps its links.
sn_rmfree_Kept(ns, n) == ns

\* lines 609-618: sn_rmfree's effect on the links.
sn_rmfree(ns, n) ==
    LET s1 == [ns EXCEPT ![ns[n].r_freeb].r_freef = ns[n].r_freef]
        s2 == [s1 EXCEPT ![s1[n].r_freef].r_freeb = s1[n].r_freeb]
    IN  [s2 EXCEPT ![n].r_freef = 0, ![n].r_freeb = 0]

\* lines 609-613: sn_rmfree's effect on the head pointer.
sn_rmfree_head(ns, head, n) ==
    IF n = head
    THEN IF ns[n].r_freef = n THEN 0 ELSE ns[n].r_freef
    ELSE head

addfree_link_NoBack(ns, head, n) ==
    IF head = 0
    THEN [ns EXCEPT ![n].r_freef = n, ![n].r_freeb = n]
    ELSE LET s1 == [ns EXCEPT ![n].r_freef = head, ![n].r_freeb = ns[head].r_freeb]
         IN  [s1 EXCEPT ![s1[head].r_freeb].r_freef = n]

\* lines 579-588: link n at the tail of the freelist.
addfree_link(ns, head, n) ==
    IF head = 0
    THEN [ns EXCEPT ![n].r_freef = n, ![n].r_freeb = n]
    ELSE LET s1 == [ns EXCEPT ![n].r_freef = head, ![n].r_freeb = ns[head].r_freeb]
             s2 == [s1 EXCEPT ![s1[head].r_freeb].r_freef = n]
         IN  [s2 EXCEPT ![head].r_freeb = n]

\* Mutant of addfree_head: the new node becomes the head of the list.
addfree_head_Lifo(head, n) == n

\* lines 579-588: fusefreelist after node n has been linked.
addfree_head(head, n) == IF head = 0 THEN n ELSE head

-----------------------------------------------------------------------------
\* The AVL tree of a mount.

avl_find_Blind(m, rpath) == {}

\* avl_find with the comparator fusefs_node_cmp: the nodes of mount m whose
\* path compares equal to rpath.
avl_find(m, rpath) ==
    {n \in hash_avl[m] : fusefs_node_cmp(rpath, nodes[n].n_rpath) = 0}

OtherRefs_AtLeastOne(n) == nodes[n].v_count >= 1

\* lines 338, 354, 508, 545, 567, 1162: somebody else holds a reference.
OtherRefs(n) == nodes[n].v_count > 1

VN_HOLD_Forgotten(ns, n) == ns

\* VN_HOLD (lines 728, 731): one more reference on the vnode.
VN_HOLD(ns, n) == [ns EXCEPT ![n].v_count = @ + 1]

FindOnly_Never(f) == FALSE

\* line 237: without attributes the caller is just looking.
FindOnly(f) == f = "NULL"

ReclaimUnlock_Forgotten(t) == t

\* line 1156: the owner of fusefreelist_lock after fusefs_node_reclaim has
\* taken a node off the list.
ReclaimUnlock(t) == 0

ClearHashed_Forgotten(ns, n) == ns

\* lines 946-948: the last part of sn_rmhash_locked in fusefs_destroy_table.
ClearHashed(ns, n) == [ns EXCEPT ![n].RHASHED = FALSE]

\* Mutant of CanRecycle: the freelist is never used.
CanRecycle_Never == FALSE

\* line 326: take the freelist head instead of allocating.
CanRecycle == fusefreelist # 0 /\ fusenodenew >= nfusenode

\* Mutant of ShouldDestroy: an i/o error does not count.
ShouldDestroy_NoError(n) ==
    /\ nodes[n].r_count = 0
    /\ \/ ~nodes[n].RHASHED
       \/ vfs_unmounted[nodes[n].n_mount]
       \/ fusenodenew > nfusenode

\* lines 497-501: destroy the node instead of putting it on the freelist.
ShouldDestroy(n) ==
    /\ nodes[n].r_count = 0
    /\ \/ ~nodes[n].RHASHED
       \/ nodes[n].r_error # 0
       \/ vfs_unmounted[nodes[n].n_mount]
       \/ fusenodenew > nfusenode

LostRace_Unnoticed(t) == FALSE

\* line 434: the path was inserted while no lock was held.
LostRace(t) == th[t].fnd # 0

\* Mutant of atomic_add_long: the counter is left as it is.
atomic_add_long_Lost(v, d) == v

\* atomic_add_long (lines 389, 1005) on fusenodenew.
atomic_add_long(v, d) == v + d

\* kmem_cache_alloc: a slab that is not in use.
FreeSlabs == {n \in Nodes : ~nodes[n].alloc}

OnFreelist_Never(n) == FALSE

\* lines 715, 723, 926: the node is on the freelist.
OnFreelist(n) == nodes[n].r_freef # 0

Sum(f, S) ==
    LET RECURSIVE sum(_)
        sum(X) == IF X = {} THEN 0
                  ELSE LET x == CHOOSE y \in X : TRUE IN f[x] + sum(X \ {x})
    IN  sum(S)

TotalRefs == Sum(refs, Nodes)

HfPcs == {"hf_find", "hf_freelock", "hf_free", "hf_vlock", "hf_hold"}

\* Threads inside fusefs_node_findcreate: each returns at most one reference.
InFindcreate == {t \in Threads : th[t].rpath # NullPath}

\* Threads inside make_fusenode that may still ask the kmem cache for a slab.
PreAlloc ==
    {t \in Threads :
        \/ th[t].pc \in {"mk_chk1", "mk_freelock", "mk_pop", "mk_alloc",
                         "mk_rhashed", "mk_tmplock", "mk_tmpvlock", "mk_tmpchk",
                         "mk_rmhash", "mk_inactive", "mk_vlock2", "mk_chk2",
                         "mk_relock"}
        \/ th[t].pc \in HfPcs /\ th[t].hret = "mk_chk1"}

At(t, l) == panic = "none" /\ th[t].pc = l

Goto(t, l) == th' = [th EXCEPT ![t].pc = l]

\* A failed ASSERT.
Panic(msg) ==
    /\ panic' = msg
    /\ UNCHANGED <<nodes, hash_avl, hash_lk, fusefreelist, freelist_lock,
                   v_lock, fusenodenew, th, refs, vfs_unmounted>>

\* sn_rmhash_locked (lines 650-663) of node n by thread t, followed by the
\* caller's rw_exit of the lock of mount lm; the thread goes on as nt and the
\* callers' references become nrefs.
sn_rmhash_locked(t, n, lm, nt, nrefs) ==
    LET m == nodes[n].n_mount
    IN  IF ~RW_WRITE_HELD(m, t)
        THEN Panic("sn_rmhash_locked: RW_WRITE_HELD")
        ELSE IF ~nodes[n].RHASHED
        THEN Panic("sn_rmhash_locked: RHASHED")
        ELSE /\ hash_avl' = [hash_avl EXCEPT ![m] = @ \ {n}]
             /\ nodes' = [nodes EXCEPT ![n].RHASHED = FALSE]
             /\ hash_lk' = RwExit(hash_lk, lm, t)
             /\ th' = [th EXCEPT ![t] = nt]
             /\ refs' = nrefs
             /\ UNCHANGED <<fusefreelist, freelist_lock, v_lock, fusenodenew,
                            panic, vfs_unmounted>>

-----------------------------------------------------------------------------
\* sn_hashfind (lines 687-734).  The result is left in th[t].fnd and the
\* thread continues at th[t].hret.

\* lines 698-715: avl_find, and the unlocked look at r_freef.
hf_find(t) ==
    /\ At(t, "hf_find")
    /\ IF ~RW_LOCK_HELD(th[t].mi, t)
       THEN Panic("sn_hashfind: RW_LOCK_HELD")
       ELSE /\ IF avl_find(th[t].mi, th[t].rpath) = {}
               THEN th' = [th EXCEPT ![t].fnd = 0, ![t].pc = th[t].hret]
               ELSE \E n \in avl_find(th[t].mi, th[t].rpath) :
                        th' = [th EXCEPT ![t].fnd = n,
                                         ![t].pc = IF OnFreelist(n)
                                                   THEN "hf_freelock"
                                                   ELSE "hf_vlock"]
            /\ UNCHANGED <<nodes, hash_avl, hash_lk, fusefreelist,
                           freelist_lock, v_lock, fusenodenew, refs, panic, vfs_unmounted>>

\* line 716: mutex_enter(&fusefreelist_lock).
hf_freelock(t) ==
    /\ At(t, "hf_freelock")
    /\ freelist_lock = 0
    /\ freelist_lock' = t
    /\ Goto(t, "hf_free")
    /\ UNCHANGED <<nodes, hash_avl, hash_lk, fusefreelist, v_lock,
                   fusenodenew, refs, panic, vfs_unmounted>>

\* lines 723-728: still on the freelist: take it off and use its reference.
hf_free(t) ==
    /\ At(t, "hf_free")
    /\ IF OnFreelist(th[t].fnd)
       THEN /\ nodes' = sn_rmfree(nodes, th[t].fnd)
            /\ fusefreelist' = sn_rmfree_head(nodes, fusefreelist, th[t].fnd)
            /\ Goto(t, th[t].hret)
       ELSE /\ Goto(t, "hf_vlock")
            /\ UNCHANGED <<nodes, fusefreelist>>
    /\ freelist_lock' = 0
    /\ UNCHANGED <<hash_avl, hash_lk, v_lock, fusenodenew, refs, panic, vfs_unmounted>>

\* VN_HOLD (lines 728, 731): mutex_enter(&vp->v_lock).
hf_vlock(t) ==
    /\ At(t, "hf_vlock")
    /\ v_lock[th[t].fnd] = 0
    /\ v_lock' = [v_lock EXCEPT ![th[t].fnd] = t]
    /\ Goto(t, "hf_hold")
    /\ UNCHANGED <<nodes, hash_avl, hash_lk, fusefreelist, freelist_lock,
                   fusenodenew, refs, panic, vfs_unmounted>>

\* VN_HOLD: v_count++; mutex_exit(&vp->v_lock).
hf_hold(t) ==
    /\ At(t, "hf_hold")
    /\ nodes' = VN_HOLD(nodes, th[t].fnd)
    /\ v_lock' = [v_lock EXCEPT ![th[t].fnd] = 0]
    /\ Goto(t, th[t].hret)
    /\ UNCHANGED <<hash_avl, hash_lk, fusefreelist, freelist_lock,
                   fusenodenew, refs, panic, vfs_unmounted>>

-----------------------------------------------------------------------------
\* fusefs_node_findcreate (lines 188-284).

\* lines 210-240: build the path, rw_enter(&mi->fmi_hash_lk, RW_READER) and
\* call sn_hashfind or make_fusenode; frame is the thread as its caller
\* left it.
fc_enter(t, c, m, f, frame) ==
    /\ At(t, "idle")
    /\ TotalRefs + Cardinality(InFindcreate) < MaxRefs
    /\ f # "NULL" => Cardinality(FreeSlabs) > Cardinality(PreAlloc)
    /\ CanRead(m)
    /\ hash_lk' = RdLock(hash_lk, m, t)
    /\ th' = [th EXCEPT ![t] = [frame EXCEPT
                  !.pc = "hf_find", !.mi = m, !.rpath = BuildPath(c), !.fap = f,
                  !.hret = IF FindOnly(f) THEN "fc_ret" ELSE "mk_chk1"]]
    /\ UNCHANGED <<nodes, hash_avl, fusefreelist, freelist_lock, v_lock,
                   fusenodenew, refs, panic, vfs_unmounted>>

\* A caller outside this file calls fusefs_node_findcreate.
fusefs_node_findcreate(t, c, m, f) == fc_enter(t, c, m, f, IdleThread)

\* The thread after fusefs_node_findcreate has returned node np: idle, or
\* back in fusefs_nget with np in hand (and still counted among the threads
\* that are about to return a reference).
FcReturn(t, np) ==
    IF th[t].fret = "idle" THEN IdleThread
    ELSE [IdleThread EXCEPT !.pc = th[t].fret, !.fnd = np,
                            !.name = th[t].name, !.rpath = th[t].rpath]

\* The callers' references after fusefs_node_findcreate has returned node np
\* to thread t: a caller outside this file has the reference now,
\* fusefs_nget hands it on when it returns.
FcRefs(t, np) ==
    IF np = 0 \/ th[t].fret # "idle" THEN refs
    ELSE [refs EXCEPT ![np] = @ + 1]

\* lines 241-261: rw_exit; a lookup, or a create with fusefs_fattr0, returns.
fc_ret(t) ==
    /\ At(t, "fc_ret")
    /\ IF th[t].fap # "NULL" /\ th[t].fnd = 0
       THEN Panic("fusefs_node_findcreate: np != NULL")
       ELSE /\ hash_lk' = RwExit(hash_lk, th[t].mi, t)
            /\ IF th[t].fap = "REAL"
               THEN /\ Goto(t, "fc_apply")
                    /\ refs' = refs
               ELSE /\ th' = [th EXCEPT ![t] = FcReturn(t, th[t].fnd)]
                    /\ refs' = FcRefs(t, th[t].fnd)
            /\ UNCHANGED <<nodes, hash_avl, fusefreelist, freelist_lock,
                           v_lock, fusenodenew, panic, vfs_unmounted>>

\* lines 267-283: fusefs_cache_check for a node that was found, then
\* fusefs_attrcache_fa (both outside this file: they work on the attribute
\* cache of the node, which the node cache does not look at); the node is
\* returned.
fc_apply(t) ==
    /\ At(t, "fc_apply")
    /\ refs' = FcRefs(t, th[t].fnd)
    /\ th' = [th EXCEPT ![t] = FcReturn(t, th[t].fnd)]
    /\ UNCHANGED <<nodes, hash_avl, hash_lk, fusefreelist, freelist_lock, v_lock,
                   fusenodenew, panic, vfs_unmounted>>

-----------------------------------------------------------------------------
\* make_fusenode (lines 295-461).

\* lines 314-320: found on the first lookup, or drop the lock to build one.
mk_chk1(t) ==
    /\ At(t, "mk_chk1")
    /\ IF th[t].fnd # 0
       THEN /\ th' = [th EXCEPT ![t].newnode = 0, ![t].pc = "fc_ret"]
            /\ hash_lk' = hash_lk
       ELSE /\ hash_lk' = RwExit(hash_lk, th[t].mi, t)
            /\ Goto(t, "mk_freelock")
    /\ UNCHANGED <<nodes, hash_avl, fusefreelist, freelist_lock, v_lock,
                   fusenodenew, refs, panic, vfs_unmounted>>

\* line 325: mutex_enter(&fusefreelist_lock).
mk_freelock(t) ==
    /\ At(t, "mk_freelock")
    /\ freelist_lock = 0
    /\ freelist_lock' = t
    /\ Goto(t, "mk_pop")
    /\ UNCHANGED <<nodes, hash_avl, hash_lk, fusefreelist, v_lock,
                   fusenodenew, refs, panic, vfs_unmounted>>

\* lines 326-329, 383: take the head of the freelist, or go and allocate
\* (victim remembers, until make_fusenode gives the node up or returns, that
\* the node in hand came from the freelist).
mk_pop(t) ==
    /\ At(t, "mk_pop")
    /\ IF CanRecycle
       THEN /\ nodes' = sn_rmfree(nodes, fusefreelist)
            /\ fusefreelist' = sn_rmfree_head(nodes, fusefreelist, fusefreelist)
            /\ th' = [th EXCEPT ![t].np = fusefreelist,
                                ![t].victim = fusefreelist,
                                ![t].pc = "mk_rhashed"]
       ELSE /\ Goto(t, "mk_alloc")
            /\ UNCHANGED <<nodes, fusefreelist>>
    /\ freelist_lock' = 0
    /\ UNCHANGED <<hash_avl, hash_lk, v_lock, fusenodenew, refs, panic, vfs_unmounted>>

\* lines 385-419: kmem_cache_alloc, vn_alloc, count it, initialize it.
mk_alloc(t) ==
    /\ At(t, "mk_alloc")
    /\ FreeSlabs # {}
    /\ LET n == CHOOSE x \in FreeSlabs : \A y \in FreeSlabs : x <= y
       IN  /\ nodes' = [nodes EXCEPT ![n] = NewNode(th[t].mi)]
           /\ th' = [th EXCEPT ![t].np = n, ![t].pc = "mk_wlock"]
    /\ fusenodenew' = atomic_add_long(fusenodenew, 1)
    /\ UNCHANGED <<hash_avl, hash_lk, fusefreelist, freelist_lock, v_lock,
                   refs, panic, vfs_unmounted>>

\* lines 333-335: the unlocked look at RHASHED.
mk_rhashed(t) ==
    /\ At(t, "mk_rhashed")
    /\ IF nodes[th[t].np].RHASHED
       THEN th' = [th EXCEPT ![t].tmp_mi = nodes[th[t].np].n_mount,
                             ![t].pc = "mk_tmplock"]
       ELSE Goto(t, "mk_inactive")
    /\ UNCHANGED <<nodes, hash_avl, hash_lk, fusefreelist, freelist_lock,
                   v_lock, fusenodenew, refs, panic, vfs_unmounted>>

\* line 336: rw_enter(&tmp_mi->fmi_hash_lk, RW_WRITER).
mk_tmplock(t) ==
    /\ At(t, "mk_tmplock")
    /\ CanWrite(th[t].tmp_mi)
    /\ hash_lk' = WrLock(hash_lk, th[t].tmp_mi, t)
    /\ Goto(t, "mk_tmpvlock")
    /\ UNCHANGED <<nodes, hash_avl, fusefreelist, freelist_lock, v_lock,
                   fusenodenew, refs, panic, vfs_unmounted>>

\* line 337: mutex_enter(&vp->v_lock).
mk_tmpvlock(t) ==
    /\ At(t, "mk_tmpvlock")
    /\ v_lock[th[t].np] = 0
    /\ v_lock' = [v_lock EXCEPT ![th[t].np] = t]
    /\ Goto(t, "mk_tmpchk")
    /\ UNCHANGED <<nodes, hash_avl, hash_lk, fusefreelist, freelist_lock,
                   fusenodenew, refs, panic, vfs_unmounted>>

\* lines 338-346: somebody took a reference: give ours up and start over.
mk_tmpchk(t) ==
    /\ At(t, "mk_tmpchk")
    /\ IF OtherRefs(th[t].np)
       THEN /\ nodes' = [nodes EXCEPT ![th[t].np].v_count = @ - 1]
            /\ hash_lk' = RwExit(hash_lk, th[t].tmp_mi, t)
            /\ th' = [th EXCEPT ![t].np = 0, ![t].tmp_mi = 0,
                                ![t].victim = 0, ![t].pc = "mk_relock"]
       ELSE /\ Goto(t, "mk_rmhash")
            /\ UNCHANGED <<nodes, hash_lk>>
    /\ v_lock' = [v_lock EXCEPT ![th[t].np] = 0]
    /\ UNCHANGED <<hash_avl, fusefreelist, freelist_lock, fusenodenew, refs,
                   panic, vfs_unmounted>>

\* lines 347-348: sn_rmhash_locked(np); rw_exit(&tmp_mi->fmi_hash_lk).
mk_rmhash(t) ==
    /\ At(t, "mk_rmhash")
    /\ sn_rmhash_locked(t, th[t].np, th[t].tmp_mi,
                        [th[t] EXCEPT !.tmp_mi = 0, !.pc = "mk_inactive"], refs)

\* line 351: sn_inactive(np) (lines 143-172) frees the old path.
mk_inactive(t) ==
    /\ At(t, "mk_inactive")
    /\ nodes' = [nodes EXCEPT ![th[t].np].n_rpath = NullPath]
    /\ Goto(t, "mk_vlock2")
    /\ UNCHANGED <<hash_avl, hash_lk, fusefreelist, freelist_lock, v_lock,
                   fusenodenew, refs, panic, vfs_unmounted>>

\* line 353: mutex_enter(&vp->v_lock).
mk_vlock2(t) ==
    /\ At(t, "mk_vlock2")
    /\ v_lock[th[t].np] = 0
    /\ v_lock' = [v_lock EXCEPT ![th[t].np] = t]
    /\ Goto(t, "mk_chk2")
    /\ UNCHANGED <<nodes, hash_avl, hash_lk, fusefreelist, freelist_lock,
                   fusenodenew, refs, panic, vfs_unmounted>>

\* lines 354-376, 395-419: give up on a referenced node, or reinitialize the
\* vnode and the fusenode for the new path.
mk_chk2(t) ==
    /\ At(t, "mk_chk2")
    /\ IF OtherRefs(th[t].np)
       THEN /\ nodes' = [nodes EXCEPT ![th[t].np].v_count = @ - 1]
            /\ th' = [th EXCEPT ![t].np = 0, ![t].victim = 0,
                                ![t].pc = "mk_relock"]
       ELSE /\ nodes' = [nodes EXCEPT ![th[t].np] = NewNode(th[t].mi)]
            /\ Goto(t, "mk_wlock")
    /\ v_lock' = [v_lock EXCEPT ![th[t].np] = 0]
    /\ UNCHANGED <<hash_avl, hash_lk, fusefreelist, freelist_lock,
                   fusenodenew, refs, panic, vfs_unmounted>>

\* lines 343-344, 357-358: rw_enter(&mi->fmi_hash_lk, RW_READER); goto start.
mk_relock(t) ==
    /\ At(t, "mk_relock")
    /\ CanRead(th[t].mi)
    /\ hash_lk' = RdLock(hash_lk, th[t].mi, t)
    /\ th' = [th EXCEPT ![t].pc = "hf_find", ![t].hret = "mk_chk1"]
    /\ UNCHANGED <<nodes, hash_avl, fusefreelist, freelist_lock, v_lock,
                   fusenodenew, refs, panic, vfs_unmounted>>

\* lines 426-433: rw_enter(&mi->fmi_hash_lk, RW_WRITER) and look again.
mk_wlock(t) ==
    /\ At(t, "mk_wlock")
    /\ CanWrite(th[t].mi)
    /\ hash_lk' = WrLock(hash_lk, th[t].mi, t)
    /\ th' = [th EXCEPT ![t].pc = "hf_find", ![t].hret = "mk_chk3"]
    /\ UNCHANGED <<nodes, hash_avl, fusefreelist, freelist_lock, v_lock,
                   fusenodenew, refs, panic, vfs_unmounted>>

\* lines 434-460: lost the race: hand the node being built to fusefs_addfree;
\* otherwise fill in the path and sn_addhash_locked (lines 628-641).
mk_chk3(t) ==
    /\ At(t, "mk_chk3")
    /\ LET n == th[t].np
           m == nodes[n].n_mount
       IN  IF LostRace(t)
           THEN /\ hash_lk' = RwExit(hash_lk, th[t].mi, t)
                /\ th' = [th EXCEPT ![t].anp = n, ![t].np = 0,
                                    ![t].aret = "mk_lost_relock",
                                    ![t].pc = "af_entry"]
                /\ UNCHANGED <<nodes, hash_avl, fusefreelist, freelist_lock,
                               v_lock, fusenodenew, refs, panic, vfs_unmounted>>
           ELSE IF ~RW_WRITE_HELD(m, t)
           THEN Panic("sn_addhash_locked: RW_WRITE_HELD")
           ELSE IF nodes[n].RHASHED
           THEN Panic("sn_addhash_locked: !RHASHED")
           ELSE /\ hash_avl' = [hash_avl EXCEPT ![m] = @ \cup {n}]
                /\ nodes' = [nodes EXCEPT ![n].n_rpath = th[t].rpath,
                                          ![n].RHASHED = TRUE]
                /\ th' = [th EXCEPT ![t].newnode = 1, ![t].fnd = n,
                                    ![t].np = 0, ![t].pc = "fc_ret"]
                /\ UNCHANGED <<hash_lk, fusefreelist, freelist_lock, v_lock,
                               fusenodenew, refs, panic, vfs_unmounted>>

\* lines 442-444: rw_enter(&mi->fmi_hash_lk, RW_READER); return (tnp).
mk_lost_relock(t) ==
    /\ At(t, "mk_lost_relock")
    /\ CanRead(th[t].mi)
    /\ hash_lk' = RdLock(hash_lk, th[t].mi, t)
    /\ th' = [th EXCEPT ![t].newnode = 0, ![t].aret = "idle",
                        ![t].pc = "fc_ret"]
    /\ UNCHANGED <<nodes, hash_avl, fusefreelist, freelist_lock, v_lock,
                   fusenodenew, refs, panic, vfs_unmounted>>

-----------------------------------------------------------------------------
\* fusefs_addfree (lines 474-592).  The node is th[t].anp; the thread
\* continues at th[t].aret when the function returns.

\* The thread after fusefs_addfree has returned.
AfReturn(t) == [th[t] EXCEPT !.pc = th[t].aret, !.anp = 0, !.ami = 0,
                             !.aret = "idle"]

\* A caller gives up one of its references: fusefs_inactive calls
\* fusefs_addfree.
fusefs_addfree(t, n) ==
    /\ At(t, "idle")
    /\ refs[n] > 0
    /\ refs' = [refs EXCEPT ![n] = @ - 1]
    /\ th' = [th EXCEPT ![t] = [IdleThread EXCEPT !.pc = "af_entry", !.anp = n]]
    /\ UNCHANGED <<nodes, hash_avl, hash_lk, fusefreelist, freelist_lock,
                   v_lock, fusenodenew, panic, vfs_unmounted>>

\* lines 481-501: the entry assertions and the choice between destroying the
\* node and putting it on the freelist.
af_entry(t) ==
    /\ At(t, "af_entry")
    /\ LET n == th[t].anp
       IN  IF nodes[n].r_freef # 0 \/ nodes[n].r_freeb # 0
           THEN Panic("fusefs_addfree: r_freef == NULL && r_freeb == NULL")
           ELSE IF nodes[n].v_count < 1
           THEN Panic("fusefs_addfree: v_count >= 1")
           ELSE /\ th' = [th EXCEPT ![t].ami = nodes[n].n_mount,
                                    ![t].pc = IF ShouldDestroy(n)
                                              THEN "af_d_hashed"
                                              ELSE "af_f_lock"]
                /\ UNCHANGED <<nodes, hash_avl, hash_lk, fusefreelist,
                               freelist_lock, v_lock, fusenodenew, refs, panic, vfs_unmounted>>

\* line 505: the unlocked look at RHASHED on the way to destroying the node.
af_d_hashed(t) ==
    /\ At(t, "af_d_hashed")
    /\ Goto(t, IF nodes[th[t].anp].RHASHED THEN "af_d_wlock" ELSE "af_d_inactive")
    /\ UNCHANGED <<nodes, hash_avl, hash_lk, fusefreelist, freelist_lock,
                   v_lock, fusenodenew, refs, panic, vfs_unmounted>>

\* line 506: rw_enter(&mi->fmi_hash_lk, RW_WRITER).
af_d_wlock(t) ==
    /\ At(t, "af_d_wlock")
    /\ CanWrite(th[t].ami)
    /\ hash_lk' = WrLock(hash_lk, th[t].ami, t)
    /\ Goto(t, "af_d_vlock")
    /\ UNCHANGED <<nodes, hash_avl, fusefreelist, freelist_lock, v_lock,
                   fusenodenew, refs, panic, vfs_unmounted>>

\* line 507: mutex_enter(&vp->v_lock).
af_d_vlock(t) ==
    /\ At(t, "af_d_vlock")
    /\ v_lock[th[t].anp] = 0
    /\ v_lock' = [v_lock EXCEPT ![th[t].anp] = t]
    /\ Goto(t, "af_d_chk")
    /\ UNCHANGED <<nodes, hash_avl, hash_lk, fusefreelist, freelist_lock,
                   fusenodenew, refs, panic, vfs_unmounted>>

\* lines 508-518: another reference exists: drop ours and return.
af_d_chk(t) ==
    /\ At(t, "af_d_chk")
    /\ IF OtherRefs(th[t].anp)
       THEN /\ nodes' = [nodes EXCEPT ![th[t].anp].v_count = @ - 1]
            /\ hash_lk' = RwExit(hash_lk, th[t].ami, t)
            /\ th' = [th EXCEPT ![t] = AfReturn(t)]
       ELSE /\ Goto(t, "af_d_rmhash")
            /\ UNCHANGED <<nodes, hash_lk>>
    /\ v_lock' = [v_lock EXCEPT ![th[t].anp] = 0]
    /\ UNCHANGED <<hash_avl, fusefreelist, freelist_lock, fusenodenew, refs,
                   panic, vfs_unmounted>>

\* lines 519-520: sn_rmhash_locked(np); rw_exit(&mi->fmi_hash_lk).
af_d_rmhash(t) ==
    /\ At(t, "af_d_rmhash")
    /\ sn_rmhash_locked(t, th[t].anp, th[t].ami,
                        [th[t] EXCEPT !.pc = "af_d_inactive"], refs)

\* line 523: sn_inactive(np).
af_d_inactive(t) ==
    /\ At(t, "af_d_inactive")
    /\ nodes' = [nodes EXCEPT ![th[t].anp].n_rpath = NullPath]
    /\ Goto(t, "af_d_vlock2")
    /\ UNCHANGED <<hash_avl, hash_lk, fusefreelist, freelist_lock, v_lock,
                   fusenodenew, refs, panic, vfs_unmounted>>

\* line 544: mutex_enter(&vp->v_lock).
af_d_vlock2(t) ==
    /\ At(t, "af_d_vlock2")
    /\ v_lock[th[t].anp] = 0
    /\ v_lock' = [v_lock EXCEPT ![th[t].anp] = t]
    /\ Goto(t, "af_d_chk2")
    /\ UNCHANGED <<nodes, hash_avl, hash_lk, fusefreelist, freelist_lock,
                   fusenodenew, refs, panic, vfs_unmounted>>

\* lines 545-550: recheck the reference count.
af_d_chk2(t) ==
    /\ At(t, "af_d_chk2")
    /\ IF OtherRefs(th[t].anp)
       THEN /\ nodes' = [nodes EXCEPT ![th[t].anp].v_count = @ - 1]
            /\ th' = [th EXCEPT ![t] = AfReturn(t)]
       ELSE /\ Goto(t, "af_destroy")
            /\ nodes' = nodes
    /\ v_lock' = [v_lock EXCEPT ![th[t].anp] = 0]
    /\ UNCHANGED <<hash_avl, hash_lk, fusefreelist, freelist_lock,
                   fusenodenew, refs, panic, vfs_unmounted>>

\* lines 552-553: sn_destroy_node (lines 986-1007).
af_destroy(t) ==
    /\ At(t, "af_destroy")
    /\ LET n == th[t].anp
       IN  IF nodes[n].v_count # 1
           THEN Panic("sn_destroy_node: v_count == 1")
           ELSE IF nodes[n].r_count # 0
           THEN Panic("sn_destroy_node: r_count == 0")
           ELSE IF nodes[n].n_rpath # NullPath
           THEN Panic("sn_destroy_node: n_rpath == NULL")
           ELSE IF nodes[n].RHASHED
           THEN Panic("sn_destroy_node: !RHASHED")
           ELSE IF nodes[n].r_freef # 0 \/ nodes[n].r_freeb # 0
           THEN Panic("sn_destroy_node: r_freef == NULL && r_freeb == NULL")
           ELSE /\ fusenodenew' = atomic_add_long(fusenodenew, -1)
                /\ nodes' = [nodes EXCEPT ![n] = FreeSlab]
                /\ th' = [th EXCEPT ![t] = AfReturn(t)]
                /\ UNCHANGED <<hash_avl, hash_lk, fusefreelist, freelist_lock,
                               v_lock, refs, panic, vfs_unmounted>>

\* line 564: rw_enter(&mi->fmi_hash_lk, RW_WRITER).
af_f_lock(t) ==
    /\ At(t, "af_f_lock")
    /\ CanWrite(th[t].ami)
    /\ hash_lk' = WrLock(hash_lk, th[t].ami, t)
    /\ Goto(t, "af_f_vlock")
    /\ UNCHANGED <<nodes, hash_avl, fusefreelist, freelist_lock, v_lock,
                   fusenodenew, refs, panic, vfs_unmounted>>

\* line 566: mutex_enter(&vp->v_lock).
af_f_vlock(t) ==
    /\ At(t, "af_f_vlock")
    /\ v_lock[th[t].anp] = 0
    /\ v_lock' = [v_lock EXCEPT ![th[t].anp] = t]
    /\ Goto(t, "af_f_chk")
    /\ UNCHANGED <<nodes, hash_avl, hash_lk, fusefreelist, freelist_lock,
                   fusenodenew, refs, panic, vfs_unmounted>>

\* lines 567-573: another reference exists: drop ours and return.
af_f_chk(t) ==
    /\ At(t, "af_f_chk")
    /\ IF OtherRefs(th[t].anp)
       THEN /\ nodes' = [nodes EXCEPT ![th[t].anp].v_count = @ - 1]
            /\ hash_lk' = RwExit(hash_lk, th[t].ami, t)
            /\ th' = [th EXCEPT ![t] = AfReturn(t)]
       ELSE /\ Goto(t, "af_f_freelock")
            /\ UNCHANGED <<nodes, hash_lk>>
    /\ v_lock' = [v_lock EXCEPT ![th[t].anp] = 0]
    /\ UNCHANGED <<hash_avl, fusefreelist, freelist_lock, fusenodenew, refs,
                   panic, vfs_unmounted>>

\* line 578: mutex_enter(&fusefreelist_lock).
af_f_freelock(t) ==
    /\ At(t, "af_f_freelock")
    /\ freelist_lock = 0
    /\ freelist_lock' = t
    /\ Goto(t, "af_f_put")
    /\ UNCHANGED <<nodes, hash_avl, hash_lk, fusefreelist, v_lock,
                   fusenodenew, refs, panic, vfs_unmounted>>

\* lines 579-591: link the node at the tail and drop both locks.
af_f_put(t) ==
    /\ At(t, "af_f_put")
    /\ nodes' = addfree_link(nodes, fusefreelist, th[t].anp)
    /\ fusefreelist' = addfree_head(fusefreelist, th[t].anp)
    /\ freelist_lock' = 0
    /\ hash_lk' = RwExit(hash_lk, th[t].ami, t)
    /\ th' = [th EXCEPT ![t] = AfReturn(t)]
    /\ UNCHANGED <<hash_avl, v_lock, fusenodenew, refs, panic, vfs_unmounted>>

-----------------------------------------------------------------------------
\* fusefs_rmhash (lines 670-678), called by a holder of a reference on a
\* node that is linked into the tree.

\* lines 673-675: rw_enter(&mi->fmi_hash_lk, RW_WRITER).
fusefs_rmhash(t, n) ==
    /\ At(t, "idle")
    /\ refs[n] > 0
    /\ nodes[n].RHASHED
    /\ CanWrite(nodes[n].n_mount)
    /\ hash_lk' = WrLock(hash_lk, nodes[n].n_mount, t)
    /\ refs' = [refs EXCEPT ![n] = @ - 1]
    /\ th' = [th EXCEPT ![t] = [IdleThread EXCEPT !.pc = "rm_do", !.np = n,
                                    !.tmp_mi = nodes[n].n_mount]]
    /\ UNCHANGED <<nodes, hash_avl, fusefreelist, freelist_lock, v_lock,
                   fusenodenew, panic, vfs_unmounted>>

\* lines 676-677: sn_rmhash_locked(np); rw_exit(&mi->fmi_hash_lk).
rm_do(t) ==
    /\ At(t, "rm_do")
    /\ sn_rmhash_locked(t, th[t].np, th[t].tmp_mi, IdleThread,
                        [refs EXCEPT ![th[t].np] = @ + 1])

-----------------------------------------------------------------------------
\* fusefs_node_reclaim (lines 1146-1182).

\* line 1153: mutex_enter(&fusefreelist_lock).
fusefs_node_reclaim(t) ==
    /\ At(t, "idle")
    /\ freelist_lock = 0
    /\ freelist_lock' = t
    /\ th' = [th EXCEPT ![t] = [IdleThread EXCEPT !.pc = "rc_loop"]]
    /\ UNCHANGED <<nodes, hash_avl, hash_lk, fusefreelist, v_lock,
                   fusenodenew, refs, panic, vfs_unmounted>>

\* lines 1154-1156, 1181: take the head off the freelist, or finish.
rc_loop(t) ==
    /\ At(t, "rc_loop")
    /\ IF fusefreelist = 0
       THEN /\ th' = [th EXCEPT ![t] = IdleThread]
            /\ freelist_lock' = 0
            /\ UNCHANGED <<nodes, fusefreelist>>
       ELSE /\ nodes' = sn_rmfree(nodes, fusefreelist)
            /\ fusefreelist' = sn_rmfree_head(nodes, fusefreelist, fusefreelist)
            /\ th' = [th EXCEPT ![t].np = fusefreelist, ![t].pc = "rc_hashed"]
            /\ freelist_lock' = ReclaimUnlock(t)
    /\ UNCHANGED <<hash_avl, hash_lk, v_lock, fusenodenew, refs, panic, vfs_unmounted>>

\* lines 1157-1159, 1178: the unlocked look at RHASHED.
rc_hashed(t) ==
    /\ At(t, "rc_hashed")
    /\ IF nodes[th[t].np].RHASHED
       THEN th' = [th EXCEPT ![t].tmp_mi = nodes[th[t].np].n_mount,
                             ![t].pc = "rc_wlock"]
       ELSE th' = [th EXCEPT ![t].anp = th[t].np, ![t].np = 0,
                             ![t].aret = "rc_relock", ![t].pc = "af_entry"]
    /\ UNCHANGED <<nodes, hash_avl, hash_lk, fusefreelist, freelist_lock,
                   v_lock, fusenodenew, refs, panic, vfs_unmounted>>

\* line 1160: rw_enter(&mi->fmi_hash_lk, RW_WRITER).
rc_wlock(t) ==
    /\ At(t, "rc_wlock")
    /\ CanWrite(th[t].tmp_mi)
    /\ hash_lk' = WrLock(hash_lk, th[t].tmp_mi, t)
    /\ Goto(t, "rc_vlock")
    /\ UNCHANGED <<nodes, hash_avl, fusefreelist, freelist_lock, v_lock,
                   fusenodenew, refs, panic, vfs_unmounted>>

\* line 1161: mutex_enter(&vp->v_lock).
rc_vlock(t) ==
    /\ At(t, "rc_vlock")
    /\ v_lock[th[t].np] = 0
    /\ v_lock' = [v_lock EXCEPT ![th[t].np] = t]
    /\ Goto(t, "rc_chk")
    /\ UNCHANGED <<nodes, hash_avl, hash_lk, fusefreelist, freelist_lock,
                   fusenodenew, refs, panic, vfs_unmounted>>

\* lines 1162-1169: somebody took a reference: drop ours, go to the next.
rc_chk(t) ==
    /\ At(t, "rc_chk")
    /\ IF OtherRefs(th[t].np)
       THEN /\ nodes' = [nodes EXCEPT ![th[t].np].v_count = @ - 1]
            /\ hash_lk' = RwExit(hash_lk, th[t].tmp_mi, t)
            /\ th' = [th EXCEPT ![t].np = 0, ![t].tmp_mi = 0,
                                ![t].pc = "rc_relock"]
       ELSE /\ Goto(t, "rc_rmhash")
            /\ UNCHANGED <<nodes, hash_lk>>
    /\ v_lock' = [v_lock EXCEPT ![th[t].np] = 0]
    /\ UNCHANGED <<hash_avl, fusefreelist, freelist_lock, fusenodenew, refs,
                   panic, vfs_unmounted>>

\* lines 1170-1178: sn_rmhash_locked(np); rw_exit; fusefs_addfree(np).
rc_rmhash(t) ==
    /\ At(t, "rc_rmhash")
    /\ sn_rmhash_locked(t, th[t].np, th[t].tmp_mi,
                        [th[t] EXCEPT !.anp = th[t].np, !.np = 0, !.tmp_mi = 0,
                                      !.aret = "rc_relock", !.pc = "af_entry"],
                        refs)

\* lines 1166, 1179: mutex_enter(&fusefreelist_lock).
rc_relock(t) ==
    /\ At(t, "rc_relock")
    /\ freelist_lock = 0
    /\ freelist_lock' = t
    /\ Goto(t, "rc_loop")
    /\ UNCHANGED <<nodes, hash_avl, hash_lk, fusefreelist, v_lock,
                   fusenodenew, refs, panic, vfs_unmounted>>

-----------------------------------------------------------------------------
\* fusefs_destroy_table (lines 908-978).

\* The nodes in the index of mount m that have r_count > 0 (history: what
\* fusefs_destroy_table finds pinned when it is called).
PinnedIn(m) == {n \in hash_avl[m] : nodes[n].r_count > 0}

\* lines 917-922: rw_enter(&mi->fmi_hash_lk, RW_WRITER).
fusefs_destroy_table(t, m) ==
    /\ At(t, "idle")
    /\ CanWrite(m)
    /\ hash_lk' = WrLock(hash_lk, m, t)
    /\ th' = [th EXCEPT ![t] = [IdleThread EXCEPT !.pc = "dt_next", !.mi = m,
                                                   !.ami = m,
                                                   !.pinned = PinnedIn(m)]]
    /\ UNCHANGED <<nodes, hash_avl, fusefreelist, freelist_lock, v_lock,
                   fusenodenew, refs, panic, vfs_unmounted>>

\* lines 923, 959-966: avl_destroy_nodes hands out the next node; when the
\* tree is empty the temporary tree replaces it and the lock is dropped (the
\* local tmp_avl keeps its contents until the function returns).
dt_next(t) ==
    /\ At(t, "dt_next")
    /\ IF hash_avl[th[t].ami] = {}
       THEN /\ hash_avl' = [hash_avl EXCEPT ![th[t].ami] = th[t].tmp_avl]
            /\ hash_lk' = RwExit(hash_lk, th[t].ami, t)
            /\ th' = [th EXCEPT ![t].ami = 0, ![t].pc = "dt_rlist"]
       ELSE /\ \E n \in hash_avl[th[t].ami] :
                 /\ hash_avl' = [hash_avl EXCEPT ![th[t].ami] = @ \ {n}]
                 /\ th' = [th EXCEPT ![t].np = n, ![t].pc = "dt_freelock"]
            /\ hash_lk' = hash_lk
    /\ UNCHANGED <<nodes, fusefreelist, freelist_lock, v_lock, fusenodenew,
                   refs, panic, vfs_unmounted>>

\* line 925: mutex_enter(&fusefreelist_lock).
dt_freelock(t) ==
    /\ At(t, "dt_freelock")
    /\ freelist_lock = 0
    /\ freelist_lock' = t
    /\ Goto(t, "dt_chk")
    /\ UNCHANGED <<nodes, hash_avl, hash_lk, fusefreelist, v_lock,
                   fusenodenew, refs, panic, vfs_unmounted>>

\* Mutant of dt_keep: the busy node is not put in the temporary tree.
dt_keep_Dropped(tmp, n) == tmp

\* line 930: avl_add(&tmp_avl, np) for a node that is not on the freelist.
dt_keep(tmp, n) == tmp \cup {n}

\* lines 926-957: a busy node goes to the temporary tree; a node on the
\* freelist comes off it, loses RHASHED and goes on the list to destroy.
dt_chk(t) ==
    /\ At(t, "dt_chk")
    /\ LET n == th[t].np
       IN  IF ~OnFreelist(n)
           THEN /\ th' = [th EXCEPT ![t].tmp_avl = dt_keep(@, n), ![t].np = 0,
                                    ![t].pc = "dt_next"]
                /\ UNCHANGED <<nodes, fusefreelist>>
           ELSE /\ nodes' = ClearHashed(sn_rmfree(nodes, n), n)
                /\ fusefreelist' = sn_rmfree_head(nodes, fusefreelist, n)
                /\ th' = [th EXCEPT ![t].rlist = <<n>> \o @, ![t].np = 0,
                                    ![t].pc = "dt_next"]
    /\ freelist_lock' = 0
    /\ UNCHANGED <<hash_avl, hash_lk, v_lock, fusenodenew, refs, panic, vfs_unmounted>>

\* lines 974-977: fusefs_addfree for every node on the list to destroy.
dt_rlist(t) ==
    /\ At(t, "dt_rlist")
    /\ IF th[t].rlist = <<>>
       THEN th' = [th EXCEPT ![t] = IdleThread]
       ELSE th' = [th EXCEPT ![t].anp = Head(th[t].rlist),
                             ![t].rlist = Tail(th[t].rlist),
                             ![t].aret = "dt_rlist", ![t].pc = "af_entry"]
    /\ UNCHANGED <<nodes, hash_avl, hash_lk, fusefreelist, freelist_lock,
                   v_lock, fusenodenew, refs, panic, vfs_unmounted>>

-----------------------------------------------------------------------------
\* fusefs_attrcache_prune (lines 793-822), called by a holder of a reference
\* on a node that is linked into the tree.

\* avl_walk(tree, np, AVL_AFTER): the next node of mount m after path p,
\* 0 when there is none.
avl_after(m, p) ==
    LET later == {n \in hash_avl[m] : fusefs_node_cmp(p, nodes[n].n_rpath) < 0}
    IN  IF later = {} THEN 0
        ELSE CHOOSE n \in later :
                 \A o \in later :
                     fusefs_node_cmp(nodes[n].n_rpath, nodes[o].n_rpath) <= 0

\* Mutant of PruneStops: the walk stops at the first node that is not below
\* the node being pruned.
PruneStops_AtMiss(np, rpath) ==
    ~(/\ Len(nodes[np].n_rpath) > Len(rpath)
      /\ nodes[np].n_rpath[Len(rpath) + 1] \in {COLON, SLASH})

\* lines 811-814: the walk stops at np.
PruneStops(np, rpath) ==
    \/ Len(nodes[np].n_rpath) < Len(rpath)
    \/ strncmp(nodes[np].n_rpath, rpath, 1, Len(rpath)) # 0

\* lines 815-817: np is below the node being pruned.
PruneHits(np, rpath) ==
    /\ Len(nodes[np].n_rpath) > Len(rpath)
    /\ nodes[np].n_rpath[Len(rpath) + 1] \in {COLON, SLASH}

\* lines 804-819: the nodes the walk from path cur calls
\* fusefs_attrcache_remove on, one entry for every call, in the order of
\* the calls.
RECURSIVE PruneWalk(_, _, _)
PruneWalk(m, cur, rpath) ==
    LET np == avl_after(m, cur)
    IN  IF np = 0 THEN <<>>
        ELSE IF PruneStops(np, rpath) THEN <<>>
        ELSE (IF PruneHits(np, rpath) THEN <<np>> ELSE <<>>)
             \o PruneWalk(m, nodes[np].n_rpath, rpath)

\* lines 801-802: rw_enter(&mi->fmi_hash_lk, RW_READER).
fusefs_attrcache_prune(t, n) ==
    /\ At(t, "idle")
    /\ refs[n] > 0
    /\ n \in hash_avl[nodes[n].n_mount]
    /\ CanRead(nodes[n].n_mount)
    /\ hash_lk' = RdLock(hash_lk, nodes[n].n_mount, t)
    /\ refs' = [refs EXCEPT ![n] = @ - 1]
    /\ th' = [th EXCEPT ![t] = [IdleThread EXCEPT !.pc = "ap_walk", !.np = n,
                                    !.tmp_mi = nodes[n].n_mount]]
    /\ UNCHANGED <<nodes, hash_avl, fusefreelist, freelist_lock, v_lock,
                   fusenodenew, panic, vfs_unmounted>>

\* The calls of fusefs_attrcache_remove that fusefs_attrcache_prune(top)
\* makes.
PruneSet(top) ==
    PruneWalk(nodes[top].n_mount, nodes[top].n_rpath, nodes[top].n_rpath)

\* lines 804-819: the walk, with fusefs_attrcache_remove (outside this file:
\* it marks the cached attributes of one node stale) on every hit; the
\* calls are kept in removed until the function returns.
ap_walk(t) ==
    /\ At(t, "ap_walk")
    /\ th' = [th EXCEPT ![t].removed = PruneSet(th[t].np), ![t].pc = "ap_exit"]
    /\ UNCHANGED <<nodes, hash_avl, hash_lk, fusefreelist, freelist_lock,
                   v_lock, fusenodenew, refs, panic, vfs_unmounted>>

\* line 821: rw_exit(&mi->fmi_hash_lk); the caller has its reference back.
ap_exit(t) ==
    /\ At(t, "ap_exit")
    /\ hash_lk' = RwExit(hash_lk, th[t].tmp_mi, t)
    /\ refs' = [refs EXCEPT ![th[t].np] = @ + 1]
    /\ th' = [th EXCEPT ![t] = IdleThread]
    /\ UNCHANGED <<nodes, hash_avl, fusefreelist, freelist_lock, v_lock, fusenodenew,
                   panic, vfs_unmounted>>

-----------------------------------------------------------------------------
-----------------------------------------------------------------------------
\* fusefs_nget (lines 1025-1068).

\* The names callers pass to fusefs_nget: "", ".", "..", "b".
NgetNames == { <<>>, <<DOT>>, <<DOT, DOT>>, <<98>> }

\* Mutant of InvalidName: ".." is let through.
InvalidName_DotDot(name) ==
    Len(name) = 0 \/ (Len(name) = 1 /\ name[1] = DOT)

\* lines 1038-1040: the names fusefs_nget refuses.
InvalidName(name) ==
    \/ Len(name) = 0
    \/ (Len(name) = 1 /\ name[1] = DOT)
    \/ (Len(name) = 2 /\ name[1] = DOT /\ name[2] = DOT)

\* FUSEFS_DNP_SEP (fusefs_node.h): the separator between the path of
\* directory dn and a name under it.
FUSEFS_DNP_SEP(dn) == SLASH

\* lines 1034-1047: a holder of directory dn calls fusefs_nget with
\* fap != NULL; *vpp = NULL; a refused name returns EINVAL, any other goes
\* to fusefs_node_findcreate.
fusefs_nget(t, dn, name, f) ==
    /\ refs[dn] > 0
    /\ nodes[dn].n_rpath # NullPath
    /\ Len(nodes[dn].n_rpath) <= MaxDirLen
    /\ f # "NULL"
    /\ IF InvalidName(name)
       THEN /\ At(t, "idle")
            /\ th' = [th EXCEPT ![t] = [IdleThread EXCEPT
                          !.pc = "ng_ret", !.name = name, !.err = EINVAL,
                          !.vpp = 0]]
            /\ UNCHANGED <<nodes, hash_avl, hash_lk, fusefreelist,
                           freelist_lock, v_lock, fusenodenew, refs, panic,
                           vfs_unmounted>>
       ELSE fc_enter(t, [dirnm |-> nodes[dn].n_rpath,
                         sep |-> FUSEFS_DNP_SEP(dn), name |-> name],
                     nodes[dn].n_mount, f,
                     [IdleThread EXCEPT !.fret = "ng_np", !.name = name])

\* lines 1053-1067: ASSERT(np != NULL); *vpp = vp; return (0).
ng_np(t) ==
    /\ At(t, "ng_np")
    /\ IF th[t].fnd = 0
       THEN Panic("fusefs_nget: np != NULL")
       ELSE /\ refs' = [refs EXCEPT ![th[t].fnd] = @ + 1]
            /\ th' = [th EXCEPT ![t] = [IdleThread EXCEPT
                          !.pc = "ng_ret", !.name = th[t].name, !.err = 0,
                          !.vpp = th[t].fnd]]
            /\ UNCHANGED <<nodes, hash_avl, hash_lk, fusefreelist,
                           freelist_lock, v_lock, fusenodenew, panic,
                           vfs_unmounted>>

\* fusefs_nget has returned err and *vpp; the caller goes on.
ng_ret(t) ==
    /\ At(t, "ng_ret")
    /\ th' = [th EXCEPT ![t] = IdleThread]
    /\ UNCHANGED <<nodes, hash_avl, hash_lk, fusefreelist, freelist_lock,
                   v_lock, fusenodenew, refs, panic, vfs_unmounted>>

\* A step of thread t inside sn_hashfind, fusefs_node_findcreate or
\* make_fusenode.
FindcreateStep(t) ==
    \/ hf_find(t) \/ hf_freelock(t) \/ hf_free(t) \/ hf_vlock(t) \/ hf_hold(t)
    \/ fc_ret(t) \/ fc_apply(t)
    \/ mk_chk1(t) \/ mk_freelock(t) \/ mk_pop(t) \/ mk_alloc(t)
    \/ mk_rhashed(t) \/ mk_tmplock(t) \/ mk_tmpvlock(t) \/ mk_tmpchk(t)
    \/ mk_rmhash(t) \/ mk_inactive(t) \/ mk_vlock2(t) \/ mk_chk2(t)
    \/ mk_relock(t) \/ mk_wlock(t) \/ mk_chk3(t) \/ mk_lost_relock(t)

\* A step of thread t inside fusefs_addfree.
AddfreeStep(t) ==
    \/ af_entry(t) \/ af_d_hashed(t) \/ af_d_wlock(t) \/ af_d_vlock(t)
    \/ af_d_chk(t) \/ af_d_rmhash(t) \/ af_d_inactive(t) \/ af_d_vlock2(t)
    \/ af_d_chk2(t) \/ af_destroy(t)
    \/ af_f_lock(t) \/ af_f_vlock(t) \/ af_f_chk(t) \/ af_f_freelock(t)
    \/ af_f_put(t)

\* A step of thread t inside one of the other functions.
OtherStep(t) ==
    \/ rm_do(t)
    \/ rc_loop(t) \/ rc_hashed(t) \/ rc_wlock(t) \/ rc_vlock(t) \/ rc_chk(t)
    \/ rc_rmhash(t) \/ rc_relock(t)
    \/ dt_next(t) \/ dt_freelock(t) \/ dt_chk(t) \/ dt_rlist(t)
    \/ ap_walk(t) \/ ap_exit(t)

\* An idle thread calls into the cache.
Call(t) ==
    \/ \E c \in Calls, m \in Mounts, f \in Faps : fusefs_node_findcreate(t, c, m, f)
    \/ \E n \in Nodes : fusefs_addfree(t, n)
    \/ \E n \in Nodes : fusefs_rmhash(t, n)
    \/ \E n \in Nodes : fusefs_attrcache_prune(t, n)
    \/ \E m \in Mounts : fusefs_destroy_table(t, m)
    \/ fusefs_node_reclaim(t)

Step(t) == Call(t) \/ FindcreateStep(t) \/ AddfreeStep(t) \/ OtherStep(t)

Next == \E t \in Threads : Step(t)

Spec == Init /\ [][Next]_vars

-----------------------------------------------------------------------------
\* The node cache of one mount with the callers of fusefs_nget: lookups and
\* creations under a held directory and from the root, and releases.
NgetMount == CHOOSE m \in Mounts : TRUE

CallNget(t) ==
    \/ \E c \in Calls, f \in Faps : fusefs_node_findcreate(t, c, NgetMount, f)
    \/ \E dn \in Nodes, name \in NgetNames, f \in Faps \ {"NULL"} :
           fusefs_nget(t, dn, name, f)
    \/ \E n \in Nodes : fusefs_addfree(t, n)

NextNget ==
    \E t \in Threads :
        CallNget(t) \/ FindcreateStep(t) \/ AddfreeStep(t) \/ ng_np(t) \/ ng_ret(t)

SpecNget == Init /\ [][NextNget]_vars

-----------------------------------------------------------------------------
\* The rest of the file system counts its i/o in flight on a node in r_count;
\* no function of the node cache changes it.

\* A holder of the node starts an i/o operation on it.
fusefs_io_start(n) ==
    /\ panic = "none"
    /\ refs[n] > 0
    /\ nodes[n].r_count < MaxIO
    /\ nodes' = [nodes EXCEPT ![n].r_count = @ + 1]
    /\ UNCHANGED <<hash_avl, hash_lk, fusefreelist, freelist_lock, v_lock,
                   fusenodenew, th, refs, vfs_unmounted, panic>>

\* An i/o operation on the node completes.
fusefs_io_done(n) ==
    /\ panic = "none"
    /\ nodes[n].alloc
    /\ nodes[n].r_count > 0
    /\ nodes' = [nodes EXCEPT ![n].r_count = @ - 1]
    /\ UNCHANGED <<hash_avl, hash_lk, fusefreelist, freelist_lock, v_lock,
                   fusenodenew, th, refs, vfs_unmounted, panic>>

\* The mount the i/o goes to.
IOMount == CHOOSE m \in Mounts : TRUE

\* The calls and steps of the threads next to the i/o, all on one mount:
\* lookups and creations with the zero attributes, releases, removals from
\* the tree, the drain of the mount's tree and the reclaim.
CallIO(t) ==
    \/ \E c \in Calls, f \in {"NULL", "FATTR0"} :
           fusefs_node_findcreate(t, c, IOMount, f)
    \/ \E n \in Nodes : fusefs_addfree(t, n)
    \/ \E n \in Nodes : fusefs_rmhash(t, n)
    \/ fusefs_destroy_table(t, IOMount)
    \/ fusefs_node_reclaim(t)

StepIO(t) ==
    \/ CallIO(t)
    \/ hf_find(t) \/ hf_freelock(t) \/ hf_free(t) \/ hf_vlock(t) \/ hf_hold(t)
    \/ fc_ret(t)
    \/ mk_chk1(t) \/ mk_freelock(t) \/ mk_pop(t) \/ mk_alloc(t)
    \/ mk_rhashed(t) \/ mk_tmplock(t) \/ mk_tmpvlock(t) \/ mk_tmpchk(t)
    \/ mk_rmhash(t) \/ mk_inactive(t) \/ mk_vlock2(t) \/ mk_chk2(t)
    \/ mk_relock(t) \/ mk_wlock(t) \/ mk_chk3(t) \/ mk_lost_relock(t)
    \/ AddfreeStep(t)
    \/ rm_do(t)
    \/ rc_loop(t) \/ rc_hashed(t) \/ rc_wlock(t) \/ rc_vlock(t) \/ rc_chk(t)
    \/ rc_rmhash(t) \/ rc_relock(t)
    \/ dt_next(t) \/ dt_freelock(t) \/ dt_chk(t) \/ dt_rlist(t)

NextIO ==
    \/ \E t \in Threads : StepIO(t)
    \/ \E n \in Nodes : fusefs_io_start(n)
    \/ \E n \in Nodes : fusefs_io_done(n)

SpecIO == Init /\ [][NextIO]_vars

-----------------------------------------------------------------------------
\* Vocabulary of the properties.

\* The node is a member of the freelist.
Pooled(n) == nodes[n].r_freef # 0 /\ nodes[n].r_freeb # 0

\* The nodes that exist.
Allocated == {n \in Nodes : nodes[n].alloc}

\* The nodes of mount m's tree whose path is p.
Keyed(m, p) == {n \in hash_avl[m] : nodes[n].n_rpath = p}

-----------------------------------------------------------------------------
\* C1: in every reachable state, no two nodes of one mount's tree have the
\* same path.
C1_IndexUnique ==
    \A m \in Mounts : \A a, b \in hash_avl[m] :
        a # b => fusefs_node_cmp(nodes[a].n_rpath, nodes[b].n_rpath) # 0

\* A thread built a node for a path another thread inserted meanwhile: it found
\* that node in the tree under the writer lock and hands its own to
\* fusefs_addfree.
C1_Witness ==
    \E t \in Threads :
        /\ th[t].pc = "af_entry" /\ th[t].aret = "mk_lost_relock"
        /\ th[t].fnd \in Keyed(th[t].mi, th[t].rpath)
        /\ th[t].anp \notin hash_avl[th[t].mi]

-----------------------------------------------------------------------------
\* The race of scenario 5: every call is fusefs_node_findcreate of one mount
\* and one path with the zero attributes, MaxRefs calls by NThreads threads,
\* into a table that starts without the path.

RaceMount == CHOOSE m \in Mounts : TRUE

RaceCall == [dirnm |-> <<>>, sep |-> 0, name |-> <<97>>]

RaceStep(t) ==
    \/ fusefs_node_findcreate(t, RaceCall, RaceMount, "FATTR0")
    \/ mk_chk1(t) \/ mk_freelock(t) \/ mk_pop(t) \/ mk_alloc(t)
    \/ mk_wlock(t) \/ mk_chk3(t) \/ mk_lost_relock(t)
    \/ hf_find(t) \/ hf_vlock(t) \/ hf_hold(t) \/ fc_ret(t)
    \/ af_entry(t) \/ af_d_hashed(t) \/ af_d_inactive(t) \/ af_d_vlock2(t)
    \/ af_d_chk2(t) \/ af_destroy(t)

NextRace == \E t \in Threads : RaceStep(t)

SpecRace == Init /\ [][NextRace]_vars

\* Every call of the race has returned.
RaceOver == TotalRefs = MaxRefs /\ \A t \in Threads : th[t].pc = "idle"

\* C2 as stated: the racing calls make one slab allocation in total, so
\* fusenodenew never exceeds one.
C2_OneAllocation == fusenodenew <= 1

\* C2: in the race the tree never holds more than one node, which has the
\* path; every reference returned is to the node in the tree; each caller that
\* missed allocates for itself, so fusenodenew may reach the number of calls;
\* and once every call has returned, all hold the same node, it is the only
\* node that exists, fusenodenew is 1 and its v_count is the number of calls.
C2_RaceOneNode ==
    /\ Cardinality(hash_avl[RaceMount]) <= 1
    /\ \A n \in hash_avl[RaceMount] : nodes[n].n_rpath = BuildPath(RaceCall)
    /\ \A n \in Nodes : refs[n] > 0 => n \in hash_avl[RaceMount]
    /\ fusenodenew = Cardinality(Allocated)
    /\ fusenodenew <= MaxRefs
    /\ RaceOver =>
         \E n \in Nodes : /\ refs[n] = MaxRefs
                          /\ nodes[n].v_count = MaxRefs
                          /\ hash_avl[RaceMount] = {n}
                          /\ Allocated = {n}
                          /\ fusenodenew = 1

\* Two callers allocated; the loser has destroyed its node and is about to
\* return the winner's.
C2_Witness ==
    \E t \in Threads :
        /\ th[t].pc = "mk_lost_relock"
        /\ hash_avl[RaceMount] = {th[t].fnd}
        /\ fusenodenew = 1

-----------------------------------------------------------------------------
\* Calls of fusefs_node_findcreate that carry attributes.
Creating(t) == th[t].rpath # NullPath /\ th[t].fap # "NULL"

\* C3: a call with attributes is not stopped by a failed assertion when
\* make_fusenode takes the node it recycles out of its tree, and what the call
\* returns is a node, which exists and is in the tree of the mount under the
\* path that was asked for.
C3_ReturnsIndexedNode ==
    \A t \in Threads :
        /\ Creating(t) /\ th[t].pc = "mk_rmhash" => nodes[th[t].np].RHASHED
        /\ Creating(t) /\ th[t].pc = "fc_ret" =>
               /\ th[t].fnd # 0
               /\ nodes[th[t].fnd].alloc
               /\ th[t].fnd \in Keyed(th[t].mi, th[t].rpath)

\* Fair scheduling: a thread inside a function whose next step is possible
\* again and again takes it (rw_enter and mutex_enter queue their waiters).
Progress(t) == FindcreateStep(t) \/ AddfreeStep(t) \/ OtherStep(t)

FairSpec == Spec /\ \A t \in Threads : SF_vars(Progress(t))

\* Termination of the calls with attributes under FairSpec, failed assertions
\* aside.  It does not hold: make_fusenode can take the same node off the
\* freelist and give it up again at lines 338-345 for ever, when another
\* thread looks the node up every time in between.
RetryLoopEnds ==
    \A t \in Threads : Creating(t) ~> (th[t].pc = "idle" \/ panic # "none")

-----------------------------------------------------------------------------
\* C4 as stated: a node a caller holds has v_count >= 2.
C4_HeldCountTwo == \A n \in Nodes : refs[n] > 0 => nodes[n].v_count >= 2

\* C4: a node a caller holds exists and has v_count >= 1, one count for every
\* reference callers hold; being in the tree adds no count.
C4_HeldCountOne ==
    \A n \in Nodes : refs[n] > 0 =>
        /\ nodes[n].alloc
        /\ nodes[n].v_count >= 1
        /\ nodes[n].v_count >= refs[n]

\* The only caller of a node in the tree holds it with v_count 1, and nobody
\* is at work.
C4_Witness ==
    \E n \in Nodes :
        /\ refs[n] = 1 /\ nodes[n].v_count = 1
        /\ nodes[n].RHASHED /\ n \in hash_avl[nodes[n].n_mount]
        /\ \A t \in Threads : th[t].pc = "idle"

-----------------------------------------------------------------------------
\* C5: every node that exists, in a tree, on the freelist or neither, has
\* v_count >= 1; and a step that lowers the v_count of a node that goes on
\* existing lowers it by one, from more than one, with the node's v_lock held.
C5_CountAtLeastOne ==
    /\ [](\A n \in Nodes :
             nodes[n].alloc \/ nodes[n].RHASHED \/ Pooled(n)
                 \/ (\E m \in Mounts : n \in hash_avl[m])
             => nodes[n].v_count >= 1)
    /\ [][\A n \in Nodes :
             nodes[n].alloc /\ nodes'[n].alloc
                 /\ nodes'[n].v_count < nodes[n].v_count
             => /\ nodes[n].v_count > 1
                /\ nodes'[n].v_count = nodes[n].v_count - 1
                /\ v_lock[n] \in Threads]_vars

\* fusefs_addfree holds the writer lock and the v_lock of a node in the tree
\* that somebody else holds too, and is about to lower its v_count.
C5_Witness ==
    \E t \in Threads :
        /\ th[t].pc = "af_f_chk"
        /\ v_lock[th[t].anp] = t
        /\ nodes[th[t].anp].RHASHED
        /\ nodes[th[t].anp].v_count > 1

-----------------------------------------------------------------------------
\* Thread t finishes sn_hashfind by taking the node off the freelist.
HashfindTakes(t) ==
    /\ th[t].pc = "hf_free" /\ th'[t].pc = th[t].hret
    /\ Pooled(th[t].fnd)

\* Thread t finishes sn_hashfind with VN_HOLD.
HashfindHolds(t) == th[t].pc = "hf_hold" /\ th'[t].pc = th[t].hret

\* C6: the lookup that finds the node still on the freelist takes it off and
\* leaves v_count alone; a lookup that holds the node raises v_count by one
\* and the node is off the freelist before and after; no node a lookup is
\* about to hold or to return, and no node a caller holds, is on the freelist.
C6_Promotion ==
    /\ [](/\ \A n \in Nodes : refs[n] > 0 => ~Pooled(n)
          /\ \A t \in Threads :
                 th[t].pc \in {"hf_vlock", "hf_hold", "fc_ret", "fc_apply"}
                     /\ th[t].fnd # 0
                 => ~Pooled(th[t].fnd))
    /\ [][\A t \in Threads :
             LET n == th[t].fnd
             IN  /\ HashfindTakes(t) =>
                        /\ ~Pooled(n)'
                        /\ nodes'[n].v_count = nodes[n].v_count
                        /\ th'[t].fnd = n
                 /\ HashfindHolds(t) =>
                        /\ ~Pooled(n) /\ ~Pooled(n)'
                        /\ nodes'[n].v_count = nodes[n].v_count + 1
                        /\ th'[t].fnd = n]_vars

\* Two lookups found the same node on the freelist: one has taken it off and
\* is about to return it with v_count 1, the other one is about to look at
\* r_freef again under fusefreelist_lock.
C6_Witness ==
    \E t, u \in Threads :
        /\ t # u
        /\ th[t].pc = "fc_ret" /\ th[u].pc = "hf_freelock"
        /\ th[t].fnd # 0 /\ th[u].fnd = th[t].fnd
        /\ nodes[th[t].fnd].v_count = 1
        /\ ~Pooled(th[t].fnd)

-----------------------------------------------------------------------------
\* Thread t is about to return node n from fusefs_node_findcreate.
Returning(t, n) == th[t].pc \in {"fc_ret", "fc_apply"} /\ th[t].fnd = n

\* Calls of fusefs_node_findcreate without attributes.
Looking(t) == th[t].rpath # NullPath /\ th[t].fap = "NULL"

\* C7: when fusefs_node_findcreate comes back from sn_hashfind or
\* make_fusenode, the node it has is the node of the tree with the path, or,
\* for a call with attributes, a node that was taken out of the tree since it
\* was found; a call without attributes has none exactly when the tree has
\* none with the path.  Every result about to be returned has a count of its
\* own on top of the ones callers hold, and when no thread is at work v_count
\* is the number of references callers hold, plus one on the freelist.
C7_RoundTrip ==
    /\ \A t \in Threads : th[t].rpath # NullPath /\ th[t].pc = "fc_ret" =>
           \/ th[t].fnd \in Keyed(th[t].mi, th[t].rpath)
           \/ th[t].fnd = 0 /\ Looking(t)
                  /\ Keyed(th[t].mi, th[t].rpath) = {}
           \/ th[t].fnd # 0 /\ Creating(t) /\ ~nodes[th[t].fnd].RHASHED
                  /\ \A m \in Mounts : th[t].fnd \notin hash_avl[m]
    /\ \A n \in Allocated :
           nodes[n].v_count >=
               refs[n] + Cardinality({t \in Threads : Returning(t, n)})
    /\ (\A t \in Threads : th[t].pc = "idle") =>
           \A n \in Allocated :
               nodes[n].v_count = refs[n] + (IF Pooled(n) THEN 1 ELSE 0)

\* A call with attributes found the node a caller already holds and is about
\* to return it: v_count is one more than the references callers hold.
C7_Witness ==
    \E t \in Threads :
        /\ Creating(t) /\ th[t].pc = "fc_ret" /\ th[t].fnd # 0
        /\ th[t].newnode = 0
        /\ th[t].fnd \in Keyed(th[t].mi, th[t].rpath)
        /\ refs[th[t].fnd] = 1
        /\ nodes[th[t].fnd].v_count = 2

-----------------------------------------------------------------------------
\* C8: a step of a call without attributes changes no tree, allocates and
\* frees no node, leaves fusenodenew alone and stays inside sn_hashfind and
\* the return of fusefs_node_findcreate (it never comes to fusefs_cache_check
\* and fusefs_attrcache_fa); at the return it has the node of the tree with
\* the path, counted, or no node when the tree has none.
C8_PureLookup ==
    /\ [](\A t \in Threads : Looking(t) /\ th[t].pc = "fc_ret" =>
             IF Keyed(th[t].mi, th[t].rpath) = {}
             THEN th[t].fnd = 0
             ELSE /\ th[t].fnd \in Keyed(th[t].mi, th[t].rpath)
                  /\ nodes[th[t].fnd].v_count >= refs[th[t].fnd] + 1)
    /\ [][\A t \in Threads :
             th'[t] # th[t] /\ (Looking(t) \/ Looking(t)') =>
                 /\ hash_avl' = hash_avl
                 /\ fusenodenew' = fusenodenew
                 /\ \A n \in Nodes : nodes'[n].alloc = nodes[n].alloc
                 /\ th'[t].pc \in HfPcs \cup {"fc_ret", "idle"}
                 /\ th[t].pc \in HfPcs \cup {"fc_ret", "idle"}]_vars

\* A lookup found the only node, which was on the freelist, and is about to
\* return it.
C8_Witness ==
    \E t \in Threads :
        /\ Looking(t) /\ th[t].pc = "fc_ret" /\ th[t].fnd # 0
        /\ nodes[th[t].fnd].v_count = 1
        /\ refs[th[t].fnd] = 0
        /\ fusefreelist = 0
        /\ fusenodenew = 1

-----------------------------------------------------------------------------
\* The locks thread t holds.
HoldsIndex(t) == \E m \in Mounts : RW_LOCK_HELD(m, t)
HoldsVlock(t) == \E n \in Nodes : v_lock[n] = t
HoldsFree(t) == freelist_lock = t

\* The places where a thread asks for a lock: rw_enter of some fmi_hash_lk
\* (a thread that is idle asks for one when it calls fusefs_node_findcreate,
\* fusefs_rmhash, fusefs_destroy_table or fusefs_attrcache_prune),
\* mutex_enter of some v_lock, mutex_enter of fusefreelist_lock.
AsksIndex == {"idle", "mk_tmplock", "mk_relock", "mk_wlock", "mk_lost_relock",
              "af_d_wlock", "af_f_lock", "rc_wlock"}
AsksVlock == {"hf_vlock", "mk_tmpvlock", "mk_vlock2", "af_d_vlock",
              "af_d_vlock2", "af_f_vlock", "rc_vlock"}
AsksFree == {"idle", "hf_freelock", "mk_freelock", "af_f_freelock",
             "rc_relock", "dt_freelock"}

\* Thread t is inside one of the functions and can take its next step.
CanStep(t) == ENABLED (FindcreateStep(t) \/ AddfreeStep(t) \/ OtherStep(t))

\* C9: a thread that asks for a fmi_hash_lk holds no v_lock, not
\* fusefreelist_lock and no fmi_hash_lk; one that asks for a v_lock does not
\* hold fusefreelist_lock or another v_lock; one that asks for
\* fusefreelist_lock holds no v_lock and not fusefreelist_lock itself; and as
\* long as no assertion has failed, whenever some thread is inside a function
\* some thread inside a function can take a step.
C9_LockOrder ==
    /\ \A t \in Threads :
           /\ th[t].pc \in AsksIndex =>
                  ~HoldsVlock(t) /\ ~HoldsFree(t) /\ ~HoldsIndex(t)
           /\ th[t].pc \in AsksVlock => ~HoldsFree(t) /\ ~HoldsVlock(t)
           /\ th[t].pc \in AsksFree => ~HoldsVlock(t) /\ ~HoldsFree(t)
    /\ panic = "none" /\ (\E t \in Threads : th[t].pc # "idle") =>
           \E t \in Threads : th[t].pc # "idle" /\ CanStep(t)

\* fusefs_node_reclaim has taken a node off the freelist and waits for the
\* writer lock of its mount, which a lookup holds as reader; the lookup saw
\* the node on the freelist and is about to ask for fusefreelist_lock.
C9_Witness ==
    \E t, u \in Threads :
        /\ th[t].pc = "rc_wlock" /\ th[u].pc = "hf_freelock"
        /\ u \in hash_lk[th[t].tmp_mi].r
        /\ th[u].fnd = th[t].np
        /\ freelist_lock = 0

-----------------------------------------------------------------------------
\* C10: while nobody holds the writer lock of a mount, the nodes of its tree
\* are the nodes of the mount with RHASHED, and they exist; and a step that
\* sets or clears RHASHED of a node is taken by the thread that holds the
\* writer lock of the node's mount.
C10_HashedIffIndexed ==
    /\ [](\A m \in Mounts : hash_lk[m].w = 0 =>
             hash_avl[m] = {n \in Allocated :
                               nodes[n].RHASHED /\ nodes[n].n_mount = m})
    /\ [][\A n \in Nodes :
             nodes'[n].RHASHED # nodes[n].RHASHED =>
                 LET m == IF nodes[n].RHASHED THEN nodes[n].n_mount
                                              ELSE nodes'[n].n_mount
                 IN  /\ m \in Mounts
                     /\ hash_lk[m].w \in Threads
                     /\ th'[hash_lk[m].w] # th[hash_lk[m].w]]_vars

\* fusefs_destroy_table has taken a node that was on the freelist out of the
\* tree and released the writer lock; the node waits on the list of nodes to
\* be destroyed with RHASHED cleared.
C10_Witness ==
    \E t \in Threads :
        /\ th[t].pc = "dt_rlist" /\ Len(th[t].rlist) > 0
        /\ \A m \in Mounts : hash_lk[m].w = 0
        /\ ~nodes[th[t].rlist[1]].RHASHED

-----------------------------------------------------------------------------
\* The nodes one comes to from node n along r_freef, n included.
RECURSIVE FreeWalk(_, _)
FreeWalk(n, seen) ==
    IF n = 0 \/ n \in seen THEN seen
    ELSE FreeWalk(nodes[n].r_freef, seen \cup {n})

\* The nodes one comes to from fusefreelist.
FromHead == FreeWalk(fusefreelist, {})

\* C11: while nobody holds fusefreelist_lock, no node has one of r_freef and
\* r_freeb null and the other not; the nodes one comes to from fusefreelist
\* are the nodes with both links, and they exist; for each of them
\* n.r_freeb.r_freef = n = n.r_freef.r_freeb; and fusefreelist is null exactly
\* when no node has the links.
C11_FreelistWellFormed ==
    freelist_lock = 0 =>
        /\ \A n \in Nodes : (nodes[n].r_freef = 0) <=> (nodes[n].r_freeb = 0)
        /\ FromHead = {n \in Nodes : Pooled(n)}
        /\ FromHead \subseteq Allocated
        /\ \A n \in FromHead :
               /\ nodes[nodes[n].r_freeb].r_freef = n
               /\ nodes[nodes[n].r_freef].r_freeb = n
        /\ (fusefreelist = 0) <=> ({n \in Nodes : Pooled(n)} = {})

\* Two nodes are on the freelist, each the other's neighbour on both sides,
\* and nobody holds fusefreelist_lock.
C11_Witness ==
    /\ freelist_lock = 0
    /\ \E a, b \in Nodes :
           /\ a # b /\ fusefreelist = a
           /\ nodes[a].r_freef = b /\ nodes[a].r_freeb = b
           /\ nodes[b].r_freef = a /\ nodes[b].r_freeb = a

-----------------------------------------------------------------------------
\* Thread t is draining mount th[t].ami under its writer lock.
Draining(t) == th[t].pc \in {"dt_next", "dt_freelock", "dt_chk"}

\* Thread t has given the tree of mount th[t].mi back and is destroying the
\* nodes it took off the freelist.
DestroyTail(t) == th[t].pc = "dt_rlist" \/ th[t].aret = "dt_rlist"

\* Node n is a cached node of mount m: it exists, is marked RHASHED, carries
\* a path and is in the index of m, where a lookup of its path finds it.
CachedIn(n, m) ==
    /\ nodes[n].alloc /\ nodes[n].RHASHED /\ nodes[n].n_mount = m
    /\ nodes[n].n_rpath # NullPath
    /\ n \in hash_avl[m]

\* CachedIn(n, m) in the state after the step.
CachedIn1(n, m) ==
    /\ nodes'[n].alloc /\ nodes'[n].RHASHED /\ nodes'[n].n_mount = m
    /\ nodes'[n].n_rpath # NullPath
    /\ n \in hash_avl'[m]

\* fusefs_destroy_table returns with every node it found busy still cached.
\* (C12 as the specification states it)
C12_BusyAtReturn ==
    \A t \in Threads :
        (th[t].pc = "dt_rlist" /\ th[t].rlist = <<>>) =>
            \A n \in th[t].tmp_avl : CachedIn(n, th[t].mi)

\* During the drain every RHASHED node of the mount is in the tree, in the
\* temporary tree or the node in hand, and the nodes of the temporary tree
\* are existing RHASHED nodes of the mount, off the freelist, with a path.
C12_DrainKeeps ==
    \A t \in Threads :
        Draining(t) =>
            /\ \A n \in Nodes :
                   (nodes[n].alloc /\ nodes[n].RHASHED
                        /\ nodes[n].n_mount = th[t].ami)
                   => n \in hash_avl[th[t].ami] \cup th[t].tmp_avl \cup {th[t].np}
            /\ \A n \in th[t].tmp_avl :
                   /\ nodes[n].alloc /\ nodes[n].RHASHED
                   /\ nodes[n].n_mount = th[t].ami
                   /\ nodes[n].n_rpath # NullPath
                   /\ ~Pooled(n)

\* The step that gives the tree back (lines 959-966) leaves exactly the busy
\* nodes cached in the mount.
C12_GivesBack ==
    \A t \in Threads :
        (th[t].pc = "dt_next" /\ th'[t].pc = "dt_rlist") =>
            /\ hash_avl'[th[t].mi] = th[t].tmp_avl
            /\ \A n \in th[t].tmp_avl : CachedIn1(n, th[t].mi)

\* A step of the thread after it gave the tree back does not take a busy
\* node out of the cache.
C12_TailKeeps ==
    \A t \in Threads :
        (DestroyTail(t) /\ th'[t] # th[t]) =>
            \A n \in th[t].tmp_avl :
                CachedIn(n, th[t].mi) => CachedIn1(n, th[t].mi)

\* C12: fusefs_destroy_table keeps every busy node: a node of the mount that
\* is off the freelist when the drain reaches it is in the mount's index,
\* RHASHED, not destroyed and findable when the function gives the index
\* back, and no later step of fusefs_destroy_table changes that; only
\* another thread can take the node out of the cache before the return.
C12_BusyKept ==
    /\ []C12_DrainKeeps
    /\ [][C12_GivesBack]_vars
    /\ [][C12_TailKeeps]_vars

\* fusefs_destroy_table has given the tree back with a busy node in it and
\* has a node from the freelist to destroy.
C12_Witness ==
    \E t \in Threads :
        /\ th[t].pc = "dt_rlist"
        /\ th[t].rlist # <<>>
        /\ th[t].tmp_avl # {}
        /\ \A n \in th[t].tmp_avl : CachedIn(n, th[t].mi)

-----------------------------------------------------------------------------
\* C13: a node of the mount that has r_count > 0 when fusefs_destroy_table
\* is called is in the mount's index, RHASHED, not destroyed and findable
\* when the function returns.  (That the unreferenced nodes of the freelist
\* are destroyed is C14.)
C13_PinnedKept ==
    \A t \in Threads :
        (th[t].pc = "dt_rlist" /\ th[t].rlist = <<>>) =>
            \A n \in th[t].pinned : CachedIn(n, th[t].mi)

\* The same at the step that gives the tree back, where the writer lock has
\* kept every other thread away from the mount's nodes since the call.
C13_PinnedGivenBack ==
    [][\A t \in Threads :
          (th[t].pc = "dt_next" /\ th'[t].pc = "dt_rlist") =>
              \A n \in th[t].pinned : CachedIn1(n, th[t].mi)]_vars

-----------------------------------------------------------------------------
\* Thread t returns, in this step, from the fusefs_addfree call that
\* fusefs_destroy_table made for node th[t].anp (lines 974-977).
DtAddfreeReturns(t) ==
    /\ th[t].aret = "dt_rlist" /\ th[t].pc # "dt_rlist"
    /\ th'[t].pc = "dt_rlist"

\* C14: every node that fusefs_destroy_table takes off the freelist is
\* destroyed by the fusefs_addfree call made for it: when the call returns
\* the node is freed, in no index and not on the freelist, and fusenodenew
\* has gone down by one.
C14_RlistDestroyed ==
    [][\A t \in Threads :
          DtAddfreeReturns(t) =>
              LET n == th[t].anp
              IN  /\ ~nodes'[n].alloc
                  /\ \A m \in Mounts : n \notin hash_avl'[m]
                  /\ nodes'[n].r_freef = 0 /\ nodes'[n].r_freeb = 0
                  /\ fusefreelist' # n
                  /\ fusenodenew' = fusenodenew - 1]_vars

-----------------------------------------------------------------------------
\* Thread t is inside fusefs_node_reclaim, the fusefs_addfree call of
\* line 1177 included.
InReclaim(t) ==
    \/ th[t].pc \in {"rc_loop", "rc_hashed", "rc_wlock", "rc_vlock", "rc_chk",
                     "rc_rmhash", "rc_relock"}
    \/ th[t].aret = "rc_relock"

\* C15 (that no assertion fails): wherever fusefs_node_reclaim comes to an
\* ASSERT, its condition holds: those of sn_rmhash_locked (lines 655-656)
\* at line 1170, those of fusefs_addfree (lines 481, 484) at line 1177 and
\* those of sn_destroy_node (lines 991-1001) under it.
C15_ReclaimAsserts ==
    \A t \in Threads :
        InReclaim(t) =>
            /\ th[t].pc = "rc_rmhash" =>
                   /\ RW_WRITE_HELD(nodes[th[t].np].n_mount, t)
                   /\ nodes[th[t].np].RHASHED
            /\ th[t].pc = "af_entry" =>
                   /\ nodes[th[t].anp].r_freef = 0
                   /\ nodes[th[t].anp].r_freeb = 0
                   /\ nodes[th[t].anp].v_count >= 1
            /\ th[t].pc = "af_destroy" =>
                   /\ nodes[th[t].anp].v_count = 1
                   /\ nodes[th[t].anp].r_count = 0
                   /\ nodes[th[t].anp].n_rpath = NullPath
                   /\ ~nodes[th[t].anp].RHASHED
                   /\ nodes[th[t].anp].r_freef = 0
                   /\ nodes[th[t].anp].r_freeb = 0

\* fusefs_node_reclaim never puts back on the freelist a node it took off
\* it.  (It does when the node has r_count > 0, and then takes it off
\* again on the next turn of the loop.)
C15_NeverPutsBack ==
    \A t \in Threads : ~(th[t].aret = "rc_relock" /\ th[t].pc = "af_f_put")

-----------------------------------------------------------------------------
\* fusefs_attrcache_prune on its own, on every tree of up to MaxPaths nodes
\* with paths out of PrunePaths, all of mount PruneMount and each held by a
\* caller.

\* "", "a", "a b", "a/b", "a/c", "a:b", "ab", "b".
PrunePaths == { <<>>, <<97>>, <<97, 32, 98>>, <<97, SLASH, 98>>,
                <<97, SLASH, 99>>, <<97, COLON, 98>>, <<97, 98>>, <<98>> }

PNodes == 1..MaxPaths

PruneMount == CHOOSE m \in Mounts : TRUE

InitPrune ==
    \E k \in 1..MaxPaths : \E f \in [1..k -> PrunePaths] :
        /\ \A i, j \in 1..k : f[i] = f[j] => i = j
        /\ nodes = [n \in PNodes |->
                       IF n <= k
                       THEN [NewNode(PruneMount) EXCEPT !.n_rpath = f[n],
                                                        !.RHASHED = TRUE]
                       ELSE FreeSlab]
        /\ hash_avl = [m \in Mounts |-> IF m = PruneMount THEN 1..k ELSE {}]
        /\ hash_lk = [m \in Mounts |-> [w |-> 0, r |-> {}]]
        /\ fusefreelist = 0
        /\ freelist_lock = 0
        /\ v_lock = [n \in PNodes |-> 0]
        /\ fusenodenew = k
        /\ th = [t \in Threads |-> IdleThread]
        /\ refs = [n \in PNodes |-> IF n <= k THEN 1 ELSE 0]
        /\ vfs_unmounted = [m \in Mounts |-> FALSE]
        /\ panic = "none"

NextPrune ==
    \E t \in Threads :
        \/ \E n \in PNodes : fusefs_attrcache_prune(t, n)
        \/ ap_walk(t)
        \/ ap_exit(t)

SpecPrune == InitPrune /\ [][NextPrune]_vars

\* Path p is path q, then '/' or ':', then possibly more.
Below(p, q) ==
    /\ Len(p) > Len(q)
    /\ SubSeq(p, 1, Len(q)) = q
    /\ p[Len(q) + 1] \in {COLON, SLASH}

\* The number of calls of fusefs_attrcache_remove on node n among calls.
Times(calls, n) == Cardinality({i \in DOMAIN calls : calls[i] = n})

\* C16: when the walk of fusefs_attrcache_prune(top) is over,
\* fusefs_attrcache_remove has been called once on every node of the tree
\* whose path is top's path, then '/' or ':', then possibly more, and not
\* at all on any other node: not on top, not on a node with top's path as a
\* prefix and no separator after it, not on a node outside the prefix range.
C16_PruneExact ==
    \A t \in Threads :
        th[t].pc = "ap_exit" =>
            \A n \in DOMAIN nodes :
                Times(th[t].removed, n) =
                    IF /\ n \in hash_avl[th[t].tmp_mi]
                       /\ Below(nodes[n].n_rpath, nodes[th[t].np].n_rpath)
                    THEN 1 ELSE 0

\* The walk from "a" is over in a tree that has "a b", "a/b" and "a:b" too:
\* it has passed "a b" and called fusefs_attrcache_remove on the other two.
C16_Witness ==
    \E t \in Threads :
        /\ th[t].pc = "ap_exit"
        /\ nodes[th[t].np].n_rpath = <<97>>
        /\ \E x, y, z \in hash_avl[th[t].tmp_mi] :
               /\ nodes[x].n_rpath = <<97, 32, 98>>
               /\ nodes[y].n_rpath = <<97, SLASH, 98>>
               /\ nodes[z].n_rpath = <<97, COLON, 98>>
               /\ Times(th[t].removed, x) = 0
               /\ Times(th[t].removed, y) = 1
               /\ Times(th[t].removed, z) = 1

-----------------------------------------------------------------------------
\* The names C17 is about: "", "." and "..".
RefusedNames == { <<>>, <<DOT>>, <<DOT, DOT>> }

\* Thread t calls fusefs_nget in this step.
NgetCalled(t) ==
    /\ th[t].pc = "idle"
    /\ th'[t].pc = "ng_ret" \/ th'[t].fret = "ng_np"

\* The call of fusefs_nget with a refused name has returned at once, with
\* EINVAL and *vpp null, and left every lock, the trees, the freelist, the
\* nodes and the callers' references as they were; with any other name the
\* lookup has begun.
C17_Refuses ==
    \A t \in Threads :
        NgetCalled(t) =>
            IF th'[t].name \in RefusedNames
            THEN /\ th'[t].pc = "ng_ret"
                 /\ th'[t].err = EINVAL /\ th'[t].vpp = 0
                 /\ UNCHANGED <<nodes, hash_avl, hash_lk, fusefreelist,
                                freelist_lock, v_lock, fusenodenew, refs>>
            ELSE th'[t].pc = "hf_find" /\ th'[t].fret = "ng_np"

\* The return of fusefs_nget after the lookup: 0 and a vnode that exists,
\* whose v_count counts the reference the caller now has.
C17_Returns ==
    \A t \in Threads :
        (th[t].pc = "ng_np" /\ th'[t].pc = "ng_ret") =>
            /\ th'[t].name \notin RefusedNames
            /\ th'[t].err = 0 /\ th'[t].vpp # 0
            /\ nodes'[th'[t].vpp].alloc
            /\ nodes'[th'[t].vpp].v_count >= 1
            /\ refs'[th'[t].vpp] = refs[th'[t].vpp] + 1

\* C17: fusefs_nget with the name "", "." or ".." returns EINVAL with *vpp
\* null and changes nothing: it takes no lock and looks up, creates,
\* references and inserts no node; with any other name, when it returns it
\* returns 0 and a non-null vnode that the caller has a reference on; and
\* a call that has returned EINVAL was a call with a refused name.
C17_NgetNames ==
    /\ [][C17_Refuses]_vars
    /\ [][C17_Returns]_vars
    /\ [](\A t \in Threads :
             th[t].pc = "ng_ret" =>
                 (th[t].err = EINVAL <=> th[t].name \in RefusedNames))

\* fusefs_nget has returned EINVAL for "..", with a node in the tree.
C17_Witness ==
    \E t \in Threads :
        /\ th[t].pc = "ng_ret" /\ th[t].name = <<DOT, DOT>>
        /\ th[t].err = EINVAL /\ th[t].vpp = 0
        /\ hash_avl[NgetMount] # {}

-----------------------------------------------------------------------------
\* The rest of the file system records an i/o error on a node in r_error and
\* a forced unmount in VFS_UNMOUNTED; no function of the node cache changes
\* them.

\* An i/o operation of a holder of the node fails.
fusefs_io_error(n) ==
    /\ panic = "none"
    /\ refs[n] > 0
    /\ nodes[n].r_error = 0
    /\ nodes' = [nodes EXCEPT ![n].r_error = 1]
    /\ UNCHANGED <<hash_avl, hash_lk, fusefreelist, freelist_lock, v_lock,
                   fusenodenew, th, refs, vfs_unmounted, panic>>

\* The mount is unmounted by force while it has nodes.
vfs_unmount(m) ==
    /\ panic = "none"
    /\ ~vfs_unmounted[m]
    /\ hash_avl[m] # {}
    /\ vfs_unmounted' = [vfs_unmounted EXCEPT ![m] = TRUE]
    /\ UNCHANGED <<nodes, hash_avl, hash_lk, fusefreelist, freelist_lock,
                   v_lock, fusenodenew, th, refs, panic>>

\* The calls and steps of the threads next to the i/o and the unmount, all
\* on mount IOMount: lookups, creations with the zero attributes, removals
\* from the tree and releases.
StepAF(t) ==
    \/ \E c \in Calls, f \in {"NULL", "FATTR0"} :
           fusefs_node_findcreate(t, c, IOMount, f)
    \/ \E n \in Nodes : fusefs_addfree(t, n)
    \/ \E n \in Nodes : fusefs_rmhash(t, n)
    \/ hf_find(t) \/ hf_freelock(t) \/ hf_free(t) \/ hf_vlock(t) \/ hf_hold(t)
    \/ fc_ret(t)
    \/ mk_chk1(t) \/ mk_freelock(t) \/ mk_pop(t) \/ mk_alloc(t)
    \/ mk_rhashed(t) \/ mk_tmplock(t) \/ mk_tmpvlock(t) \/ mk_tmpchk(t)
    \/ mk_rmhash(t) \/ mk_inactive(t) \/ mk_vlock2(t) \/ mk_chk2(t)
    \/ mk_relock(t) \/ mk_wlock(t) \/ mk_chk3(t) \/ mk_lost_relock(t)
    \/ AddfreeStep(t)
    \/ rm_do(t)

NextAF ==
    \/ \E t \in Threads : StepAF(t)
    \/ \E n \in Nodes : fusefs_io_start(n)
    \/ \E n \in Nodes : fusefs_io_done(n)
    \/ \E n \in Nodes : fusefs_io_error(n)
    \/ vfs_unmount(IOMount)

SpecAF == Init /\ [][NextAF]_vars


\* The places of fusefs_addfree on the way to destroying the node and on the
\* way to the freelist.
DestroyPath == {"af_d_hashed", "af_d_wlock", "af_d_vlock", "af_d_chk",
                "af_d_rmhash", "af_d_inactive", "af_d_vlock2", "af_d_chk2",
                "af_destroy"}
FreelistPath == {"af_f_lock", "af_f_vlock", "af_f_chk", "af_f_freelock",
                 "af_f_put"}

\* Thread t returns from fusefs_addfree in this step.
AddfreeReturns(t) == th[t].pc \in DestroyPath \cup FreelistPath /\ th'[t].pc = th[t].aret

\* fusefs_addfree chooses to destroy the node exactly when r_count = 0 and
\* the node is not RHASHED, or has an i/o error, or its mount is unmounted,
\* or fusenodenew > nfusenode.
C18_Decides ==
    \A t \in Threads :
        (th[t].pc = "af_entry" /\ th'[t].pc # "af_entry") =>
            LET n == th[t].anp
                destroy == /\ nodes[n].r_count = 0
                           /\ \/ ~nodes[n].RHASHED
                              \/ nodes[n].r_error # 0
                              \/ vfs_unmounted[nodes[n].n_mount]
                              \/ fusenodenew > nfusenode
            IN  th'[t].pc = IF destroy THEN "af_d_hashed" ELSE "af_f_lock"

\* On the way to destroying the node, the call of the only holder returns
\* with the node destroyed: freed, in no tree and not RHASHED, off the
\* freelist, fusenodenew one less.
C18_Destroys ==
    \A t \in Threads :
        (th[t].pc \in DestroyPath /\ AddfreeReturns(t)
            /\ nodes[th[t].anp].v_count = 1) =>
            LET n == th[t].anp
            IN  /\ ~nodes[n].RHASHED
                /\ \A m \in Mounts : n \notin hash_avl[m] /\ n \notin hash_avl'[m]
                /\ ~nodes'[n].alloc
                /\ nodes'[n].r_freef = 0 /\ nodes'[n].r_freeb = 0
                /\ fusefreelist' # n
                /\ fusenodenew' = fusenodenew - 1

\* On the way to the freelist no step of the call changes which tree the
\* node is in, and the call of the only holder returns with the node at the
\* tail of the freelist.
C18_Appends ==
    \A t \in Threads :
        (th[t].pc \in FreelistPath /\ th'[t] # th[t]) =>
            LET n == th[t].anp
            IN  /\ \A m \in Mounts : (n \in hash_avl'[m]) <=> (n \in hash_avl[m])
                /\ nodes'[n].RHASHED = nodes[n].RHASHED
                /\ (AddfreeReturns(t) /\ nodes[n].v_count = 1) =>
                       /\ nodes'[n].alloc
                       /\ fusefreelist' # 0
                       /\ nodes'[fusefreelist'].r_freeb = n
                       /\ nodes'[n].r_freef = fusefreelist'
                       /\ fusenodenew' = fusenodenew

-----------------------------------------------------------------------------
\* C19: every node on the freelist is RHASHED, and it is in the tree of its
\* mount whenever nobody holds the writer lock of that mount: fusefs_addfree
\* puts a node on the freelist only while it is linked into the tree, and
\* destroys a node that is not.
C19_FreelistHashed ==
    \A n \in Nodes :
        Pooled(n) =>
            /\ nodes[n].alloc /\ nodes[n].RHASHED
            /\ hash_lk[nodes[n].n_mount].w = 0 => n \in hash_avl[nodes[n].n_mount]

-----------------------------------------------------------------------------
\* The places of make_fusenode between taking a node off the freelist and
\* having it reinitialized (lines 331-376).
RecyclePath == {"mk_rhashed", "mk_tmplock", "mk_tmpvlock", "mk_tmpchk",
                "mk_rmhash", "mk_inactive", "mk_vlock2", "mk_chk2"}

\* The choice of lines 326 and 383: the head of the freelist is taken, and
\* nothing allocated, exactly when the freelist is not empty and
\* fusenodenew >= nfusenode.
C20_Chooses ==
    \A t \in Threads :
        (th[t].pc = "mk_pop" /\ th'[t] # th[t]) =>
            IF fusefreelist # 0 /\ fusenodenew >= nfusenode
            THEN /\ th'[t].pc = "mk_rhashed"
                 /\ th'[t].np = fusefreelist
                 /\ nodes'[fusefreelist].r_freef = 0
                 /\ fusefreelist' # fusefreelist
                 /\ fusenodenew' = fusenodenew
            ELSE th'[t].pc = "mk_alloc"

\* A slab is allocated only by a thread that found the freelist empty or
\* fusenodenew < nfusenode.
C20_AllocatesAtMkAlloc ==
    fusenodenew' > fusenodenew =>
        \E t \in Threads : th[t].pc = "mk_alloc" /\ th'[t].pc = "mk_wlock"

\* The step that reinitializes the victim for the new path finds it in no
\* tree, not RHASHED and with its old path freed, and leaves it a node of
\* the target mount.
C20_Reinitializes ==
    \A t \in Threads :
        (th[t].pc = "mk_chk2" /\ th'[t].pc = "mk_wlock") =>
            LET n == th[t].np
            IN  /\ n = th[t].victim
                /\ \A m \in Mounts : n \notin hash_avl[m]
                /\ ~nodes[n].RHASHED
                /\ nodes[n].n_rpath = NullPath
                /\ nodes'[n].n_mount = th[t].mi
                /\ nodes'[n].alloc /\ nodes'[n].v_count = 1

\* The step that links the node into the target tree links it into that
\* tree alone.
C20_Inserts ==
    \A t \in Threads :
        (th[t].pc = "mk_chk3" /\ th'[t].pc = "fc_ret") =>
            LET n == th[t].np
            IN  /\ \A m \in Mounts : n \notin hash_avl[m]
                /\ \A m \in Mounts : (n \in hash_avl'[m]) <=> (m = th[t].mi)
                /\ nodes'[n].n_mount = th[t].mi
                /\ nodes'[n].n_rpath = th[t].rpath

C20_CountUnchangedUnlessLost ==
    \A t \in Threads :
        (th[t].victim # 0 /\ th'[t] # th[t] /\ th[t].aret # "mk_lost_relock") =>
            fusenodenew' = fusenodenew

-----------------------------------------------------------------------------
\* The freelist in list order: the nodes one comes to from node n along
\* r_freef, n first.
RECURSIVE FreeSeq(_, _)
FreeSeq(n, seen) ==
    IF n = 0 \/ n \in seen THEN <<>>
    ELSE <<n>> \o FreeSeq(nodes[n].r_freef, seen \cup {n})

\* The freelist from fusefreelist on.
FreeOrder == FreeSeq(fusefreelist, {})

\* The sequence s without node n.
Without(s, n) == SelectSeq(s, LAMBDA x : x # n)

\* The nodes of sequence s.
InSeq(s) == {s[i] : i \in 1..Len(s)}

\* fusefs_addfree links its node behind every node that is on the freelist.
C21_AppendsAtTail ==
    [][\A t \in Threads :
          (th[t].pc = "af_f_put" /\ th'[t].pc # "af_f_put")
              => /\ th[t].anp \notin InSeq(FreeOrder)
                 /\ FreeOrder' = Append(FreeOrder, th[t].anp)]_vars

\* make_fusenode and fusefs_node_reclaim take the first node of the freelist
\* and leave the others in their order.
C21_PopsFirst ==
    [][\A t \in Threads :
          \/ th[t].pc = "mk_pop" /\ th'[t].pc = "mk_rhashed"
          \/ th[t].pc = "rc_loop" /\ th'[t].pc = "rc_hashed"
          => /\ FreeOrder # <<>>
             /\ th'[t].np = Head(FreeOrder)
             /\ FreeOrder' = Tail(FreeOrder)]_vars

\* No step reorders the freelist: a step leaves it alone, appends one node
\* (and only fusefs_addfree does that), or takes one node out, so that the
\* nodes on the list stand in the order in which they were put on it.
C21_OrderIsArrival ==
    [][\/ FreeOrder' = FreeOrder
       \/ \E t \in Threads :
              /\ th[t].pc = "af_f_put"
              /\ FreeOrder' = Append(FreeOrder, th[t].anp)
       \/ \E n \in InSeq(FreeOrder) : FreeOrder' = Without(FreeOrder, n)]_vars

C21_RecycleTaken ==
    \E t \in Threads : th[t].pc = "mk_rhashed" /\ th[t].victim = th[t].np

-----------------------------------------------------------------------------
\* Thread t is at the label start of make_fusenode (lines 312-313): it has
\* just been called, or it has given up a node of the freelist and retries.
MakeEntered(t) == th[t].pc = "hf_find" /\ th[t].hret = "mk_chk1"

\* make_fusenode has just returned th[t].fnd to fusefs_node_findcreate
\* (line 239), which has not yet dropped the lock (line 240).
MakeReturned(t) == th[t].pc = "fc_ret" /\ th[t].fap # "NULL"

\* The node exists, is not on the freelist, and its v_count covers the
\* references of the callers and one for every thread make_fusenode has just
\* returned it to.
Referenced(n) ==
    /\ n # 0
    /\ nodes[n].alloc
    /\ ~OnFreelist(n)
    /\ nodes[n].v_count >=
           refs[n] + Cardinality({u \in Threads : MakeReturned(u) /\ th[u].fnd = n})

\* Every return of make_fusenode holds the lock of the mount as a reader and
\* returns a referenced node.  (C22 as the specification states it)
C22_SharedAtReturn ==
    \A t \in Threads :
        MakeReturned(t) =>
            /\ t \in hash_lk[th[t].mi].r
            /\ Referenced(th[t].fnd)

\* C22: make_fusenode starts with fmi_hash_lk of the mount held as a reader;
\* it returns a referenced node with that lock held, as a reader when the node
\* was found on the first lookup or the insert race was lost, and as the
\* writer when the node was newly created.
C22_HeldAtReturn ==
    \A t \in Threads :
        /\ MakeEntered(t) =>
               t \in hash_lk[th[t].mi].r /\ hash_lk[th[t].mi].w = 0
        /\ MakeReturned(t) =>
               /\ Referenced(th[t].fnd)
               /\ IF th[t].newnode = 1
                  THEN hash_lk[th[t].mi].w = t /\ hash_lk[th[t].mi].r = {}
                  ELSE t \in hash_lk[th[t].mi].r /\ hash_lk[th[t].mi].w = 0

\* make_fusenode has just returned the node it created and linked into the
\* tree, with the lock of the mount held as the writer.
C22_Witness ==
    \E t \in Threads :
        /\ MakeReturned(t) /\ th[t].newnode = 1
        /\ hash_lk[th[t].mi].w = t
        /\ th[t].fnd \in hash_avl[th[t].mi]
        /\ nodes[th[t].fnd].v_count = 1

\* make_fusenode has just returned, as a reader, the node it found on the
\* first lookup.
C22_FoundReturned ==
    \E t \in Threads :
        /\ MakeReturned(t) /\ th[t].newnode = 0 /\ th[t].victim = 0
        /\ fusenodenew = 1
        /\ t \in hash_lk[th[t].mi].r

\* make_fusenode has just returned, as a reader, the node that beat the
\* recycled node it was building to the tree.
C22_LostReturned ==
    \E t \in Threads :
        /\ MakeReturned(t) /\ th[t].newnode = 0 /\ th[t].victim # 0
        /\ t \in hash_lk[th[t].mi].r

-----------------------------------------------------------------------------
\* Thread t is about to run sn_destroy_node on th[t].anp (line 552).
Destroying(t) == th[t].pc = "af_destroy"

\* The assertions of sn_destroy_node (lines 998-1004) about node n.
DestroyAsserts(n) ==
    /\ nodes[n].v_count = 1
    /\ nodes[n].r_count = 0
    /\ nodes[n].n_rpath = NullPath
    /\ ~nodes[n].RHASHED
    /\ nodes[n].r_freef = 0 /\ nodes[n].r_freeb = 0

\* Node n is in the hands of a thread other than t: found, being built or
\* released, or on the list of a drain.
InOtherHands(n, t) ==
    \E u \in Threads \ {t} :
        \/ n \in {th[u].np, th[u].fnd, th[u].anp}
        \/ n \in InSeq(th[u].rlist)

\* C23: whenever sn_destroy_node runs its assertions hold, and the node it
\* destroys is held by no caller, is in the hands of no other thread, and is
\* in no tree and not on the freelist.
C23_DestroyNodeSafe ==
    \A t \in Threads :
        Destroying(t) =>
            /\ DestroyAsserts(th[t].anp)
            /\ refs[th[t].anp] = 0
            /\ ~InOtherHands(th[t].anp, t)
            /\ \A m \in Mounts : th[t].anp \notin hash_avl[m]
            /\ th[t].anp \notin FromHead


\* What holds of sn_destroy_node with i/o in flight as well: every assertion
\* but the one on r_count, and nobody else has the node.
C23_AllButIoCount ==
    \A t \in Threads :
        Destroying(t) =>
            /\ nodes[th[t].anp].v_count = 1
            /\ nodes[th[t].anp].n_rpath = NullPath
            /\ ~nodes[th[t].anp].RHASHED
            /\ nodes[th[t].anp].r_freef = 0 /\ nodes[th[t].anp].r_freeb = 0
            /\ refs[th[t].anp] = 0
            /\ ~InOtherHands(th[t].anp, t)
            /\ \A m \in Mounts : th[t].anp \notin hash_avl[m]
            /\ th[t].anp \notin FromHead

-----------------------------------------------------------------------------
\* The node thread t is about to call sn_rmhash_locked on (lines 347, 519,
\* 676, 1170), 0 when it is not at such a call.
RmhashNode(t) ==
    IF th[t].pc \in {"mk_rmhash", "rm_do", "rc_rmhash"} THEN th[t].np
    ELSE IF th[t].pc = "af_d_rmhash" THEN th[t].anp
    ELSE 0

\* C24: sn_rmhash_locked is only ever called, by fusefs_rmhash,
\* fusefs_addfree, make_fusenode or fusefs_node_reclaim, on a node that is
\* RHASHED and in the tree of its mount at that moment, with the lock of that
\* mount held as the writer: its assertions hold and no node is taken out of
\* a tree twice.
C24_RemovesHashed ==
    \A t \in Threads :
        RmhashNode(t) # 0 =>
            /\ RW_WRITE_HELD(nodes[RmhashNode(t)].n_mount, t)
            /\ nodes[RmhashNode(t)].RHASHED
            /\ RmhashNode(t) \in hash_avl[nodes[RmhashNode(t)].n_mount]

\* What holds at every call: the lock of the node's mount is held as the
\* writer; and a node fusefs_rmhash is called on by a holder that found it
\* RHASHED when it took the lock is still RHASHED and in the tree.
C24_WriterHeld ==
    \A t \in Threads :
        RmhashNode(t) # 0 =>
            /\ RW_WRITE_HELD(nodes[RmhashNode(t)].n_mount, t)
            /\ th[t].pc = "rm_do" =>
                   /\ nodes[RmhashNode(t)].RHASHED
                   /\ RmhashNode(t) \in hash_avl[nodes[RmhashNode(t)].n_mount]

-----------------------------------------------------------------------------
\* No thread is inside a function of the node cache.
Quiescent == \A t \in Threads : th[t].pc = "idle"

\* C25: whenever no operation is in progress, the v_count of every node that
\* exists is the number of references callers hold on it, plus one if the
\* node is on the freelist; every node that exists is held by a caller or is
\* on the freelist; and no node held by a caller is on the freelist.
C25_CountsBalance ==
    Quiescent =>
        \A n \in Allocated :
            /\ nodes[n].v_count = refs[n] + (IF Pooled(n) THEN 1 ELSE 0)
            /\ refs[n] > 0 \/ Pooled(n)
            /\ ~(refs[n] > 0 /\ Pooled(n))


\* Nobody is at work; one node is held by a caller and off the freelist,
\* another is on the freelist with the one reference of the list.
C25_Witness ==
    /\ Quiescent
    /\ \E a, b \in Allocated :
           /\ a # b
           /\ refs[a] > 0 /\ ~Pooled(a) /\ nodes[a].v_count = refs[a]
           /\ refs[b] = 0 /\ Pooled(b) /\ nodes[b].v_count = 1

-----------------------------------------------------------------------------
\* Thread t lost the race of lines 433-445 with a node it took off the
\* freelist and is inside the fusefs_addfree of line 441.
LostRecycled(t) == th[t].aret = "mk_lost_relock" /\ th[t].victim # 0

\* While nobody is at work fusenodenew is the number of nodes that exist.
C26_Exact == Quiescent => fusenodenew = Cardinality(Allocated)

\* fusenodenew changes by one at a time: up in the step of make_fusenode
\* that allocates one slab, down in the step of sn_destroy_node that frees
\* one; and no slab is allocated or freed without it.
C26_OncePerNode ==
    /\ fusenodenew' # fusenodenew =>
           \/ /\ fusenodenew' = fusenodenew + 1
              /\ \E t \in Threads : th[t].pc = "mk_alloc" /\ th'[t].pc = "mk_wlock"
              /\ \E n \in Nodes \ Allocated : Allocated' = Allocated \cup {n}
           \/ /\ fusenodenew' = fusenodenew - 1
              /\ \E t \in Threads :
                     /\ Destroying(t) /\ th'[t] # th[t]
                     /\ th[t].anp \in Allocated
                     /\ Allocated' = Allocated \ {th[t].anp}
    /\ Allocated' # Allocated => fusenodenew' # fusenodenew

\* Taking a node off the freelist and reinitializing it leaves fusenodenew
\* alone.
C26_RecycleKeeps ==
    \A t \in Threads :
        (th[t].pc \in RecyclePath \cup {"mk_pop"} /\ th'[t] # th[t]) =>
            fusenodenew' = fusenodenew /\ Allocated' = Allocated

\* A make_fusenode that lost the race with a recycled node leaves
\* fusenodenew alone while it hands the node to fusefs_addfree.
C26_LostKeeps ==
    \A t \in Threads :
        (LostRecycled(t) /\ th'[t] # th[t]) => fusenodenew' = fusenodenew

\* The same up to the step of sn_destroy_node, which takes the node's count
\* away with the node.
C26_LostDestroys ==
    \A t \in Threads :
        (LostRecycled(t) /\ th'[t] # th[t]) =>
            IF Destroying(t)
            THEN /\ th[t].anp = th[t].victim
                 /\ fusenodenew' = fusenodenew - 1
                 /\ ~nodes'[th[t].anp].alloc
            ELSE fusenodenew' = fusenodenew

====
